---- MODULE Spec2Model ----
(***************************************************************************)
(* OBE portal: the record snapshot (`data`), the store operations that      *)
(* feed the attainment computations, the two attainment computations and    *)
(* the four report views that render them.                                  *)
(*                                                                          *)
(* Conventions of the translation                                           *)
(*  - ids are positive integers; 0 stands for an empty form value ("").     *)
(*  - a JavaScript value that may be null is a sequence of length 0 (null)  *)
(*    or 1 (the value): Null == <<>>, Some(v) == <<v>>.                     *)
(*  - JavaScript numbers are exact rationals [n, d] in lowest terms, d > 0. *)
(***************************************************************************)
EXTENDS Integers, Sequences, FiniteSets, TLC

VARIABLES data, report, ops, pending, file, response, server, client

vars == <<data, report, ops, pending, file, response, server, client>>

(***************************************************************************)
(* Numbers                                                                  *)
(***************************************************************************)
Abs(x) == IF x < 0 THEN -x ELSE x

RECURSIVE GCD(_, _)
GCD(a, b) == IF b = 0 THEN a ELSE GCD(b, a % b)

Norm(n, d) ==
    LET s == IF d < 0 THEN -1 ELSE 1
        g == GCD(Abs(n), Abs(d))
    IN  [n |-> (s * n) \div g, d |-> (s * d) \div g]

RInt(i) == [n |-> i, d |-> 1]

RAdd(a, b) == Norm(a.n * b.d + b.n * a.d, a.d * b.d)

RMul(a, b) == Norm(a.n * b.n, a.d * b.d)

RDiv(a, b) == Norm(a.n * b.d, a.d * b.n)

RGeq(a, b) == a.n * b.d >= b.n * a.d

Null == <<>>

Some(v) == <<v>>

IsNull(o) == Len(o) = 0

(* Array.prototype.find: the first element that satisfies Test, or null. *)
First(hits) == IF Len(hits) = 0 THEN Null ELSE Some(hits[1])

(* Array.prototype.reduce((sum, value) => sum + value, 0) *)
RECURSIVE SumSeq(_)
SumSeq(s) == IF s = <<>> THEN RInt(0) ELSE RAdd(s[1], SumSeq(Tail(s)))

(* Faulty variant: the sum is divided by one more than the count. *)
AverageOverOneMore(s) == RDiv(SumSeq(s), RInt(Len(s) + 1))

Average(s) == RDiv(SumSeq(s), RInt(Len(s)))

(***************************************************************************)
(* Lookups                                                                  *)
(***************************************************************************)
getStudent(d, id) ==
    First(SelectSeq(d.students, LAMBDA student : student.id = id))

getProgramOutcome(d, id) ==
    First(SelectSeq(d.programOutcomes, LAMBDA outcome : outcome.id = id))

getCourseOutcome(d, id) ==
    First(SelectSeq(d.courseOutcomes, LAMBDA outcome : outcome.id = id))

getAssessment(d, id) ==
    First(SelectSeq(d.assessments, LAMBDA assessment : assessment.id = id))

(* Faulty variant: the first matching enrolment is taken. *)
findLatestEnrolmentFirst(d, studentId, courseId) ==
    LET enrolments == SelectSeq(d.enrolments,
            LAMBDA enrolment : enrolment.studentId = studentId /\ enrolment.courseId = courseId)
    IN  IF Len(enrolments) = 0 THEN Null ELSE Some(enrolments[1])

findLatestEnrolment(d, studentId, courseId) ==
    LET enrolments == SelectSeq(d.enrolments,
            LAMBDA enrolment : enrolment.studentId = studentId /\ enrolment.courseId = courseId)
    IN  IF Len(enrolments) = 0 THEN Null ELSE Some(enrolments[Len(enrolments)])

(***************************************************************************)
(* Course outcome attainment of one enrolment                               *)
(***************************************************************************)
(* Faulty variant: the weight is always taken as a percentage, so 0 counts nothing. *)
CoWeightNoDefault(mapping) == Norm(mapping.weight, 100)

CoWeight(mapping) ==
    IF mapping.weight > 0 THEN Norm(mapping.weight, 100) ELSE RInt(1)

MarkOf(d, enrolment, assessment) ==
    First(SelectSeq(d.marks, LAMBDA entry :
        entry.enrolmentId = enrolment.id /\ entry.assessmentId = assessment.id))

(* markEntry ? markEntry.marks : 0 *)
ScoreOf(markEntry) == IF IsNull(markEntry) THEN 0 ELSE markEntry[1].marks

(* Faulty variant: the score is added without its weight. *)
AddToTotalsScoreUnweighted(acc, maxMarks, score, weight) ==
    [totalWeightedMax |-> RAdd(acc.totalWeightedMax, RMul(RInt(maxMarks), weight)),
     totalWeightedScore |-> RAdd(acc.totalWeightedScore, RInt(score))]

AddToTotals(acc, maxMarks, score, weight) ==
    [totalWeightedMax |-> RAdd(acc.totalWeightedMax, RMul(RInt(maxMarks), weight)),
     totalWeightedScore |-> RAdd(acc.totalWeightedScore, RMul(RInt(score), weight))]

(* The callback of relevantMappings.forEach: the running totals after one   *)
(* more mapping.                                                            *)
(* Faulty variant: the assessment's course is not compared with the enrolment's.    *)
CoStepAnyCourse(d, enrolment, acc, mapping, assessment) ==
    IF IsNull(assessment)
    THEN acc
    ELSE AddToTotals(acc, assessment[1].maxMarks,
                     ScoreOf(MarkOf(d, enrolment, assessment[1])), CoWeight(mapping))

CoStep(d, enrolment, acc, mapping, assessment) ==
    IF IsNull(assessment) \/ assessment[1].courseId # enrolment.courseId
    THEN acc
    ELSE AddToTotals(acc, assessment[1].maxMarks,
                     ScoreOf(MarkOf(d, enrolment, assessment[1])), CoWeight(mapping))

RECURSIVE CoTotals(_, _, _, _)
CoTotals(d, enrolment, mappings, acc) ==
    IF mappings = <<>> THEN acc
    ELSE CoTotals(d, enrolment, Tail(mappings),
            CoStep(d, enrolment, acc, Head(mappings),
                   getAssessment(d, Head(mappings).assessmentId)))

CoResult(totals) ==
    IF totals.totalWeightedMax = RInt(0) THEN Null
    ELSE Some(RMul(RDiv(totals.totalWeightedScore, totals.totalWeightedMax), RInt(100)))

CoOfMappings(d, enrolment, relevantMappings) ==
    IF Len(relevantMappings) = 0 THEN Null
    ELSE CoResult(CoTotals(d, enrolment, relevantMappings,
            [totalWeightedMax |-> RInt(0), totalWeightedScore |-> RInt(0)]))

calculateCourseOutcomeAchievement(d, enrolment, courseOutcomeId) ==
    CoOfMappings(d, enrolment, SelectSeq(d.assessmentCoMappings,
        LAMBDA mapping : mapping.courseOutcomeId = courseOutcomeId))

(* enrolments.map(e => calculateCourseOutcomeAchievement(e, id))            *)
(*           .filter(value => value !== null)                               *)
(* A result is <<>> or <<value>>, so the filtered list is the concatenation. *)
RECURSIVE CoAttainments(_, _, _)
CoAttainments(d, enrolments, courseOutcomeId) ==
    IF enrolments = <<>> THEN <<>>
    ELSE calculateCourseOutcomeAchievement(d, Head(enrolments), courseOutcomeId)
            \o CoAttainments(d, Tail(enrolments), courseOutcomeId)

(***************************************************************************)
(* Program outcome attainment of one student                                *)
(***************************************************************************)
(* Faulty variant: the stored weight is used as it is. *)
PoWeightNoDefault(mapping) == mapping.weight

(* Faulty variant: the default is the multiplier of the course-outcome level. *)
PoWeightDefaultOne(mapping) == IF mapping.weight > 0 THEN mapping.weight ELSE 1

PoWeight(mapping) == IF mapping.weight > 0 THEN mapping.weight ELSE 100

(* Faulty variant: a mapping without attainments still adds its weight.             *)
PoAddAlways(acc, attainments, weight) ==
    [totalWeight |-> acc.totalWeight + weight,
     weightedSum |-> IF Len(attainments) = 0 THEN acc.weightedSum
                     ELSE RAdd(acc.weightedSum, RMul(Average(attainments), RInt(weight)))]

PoAdd(acc, attainments, weight) ==
    IF Len(attainments) = 0 THEN acc
    ELSE [totalWeight |-> acc.totalWeight + weight,
          weightedSum |-> RAdd(acc.weightedSum, RMul(Average(attainments), RInt(weight)))]

PoStepFor(d, acc, mapping, courseOutcome, enrolmentsForCourse) ==
    IF Len(enrolmentsForCourse) = 0 THEN acc
    ELSE PoAdd(acc, CoAttainments(d, enrolmentsForCourse, courseOutcome.id), PoWeight(mapping))

(* Faulty variant: a mapping of a missing course outcome counts as 0%. *)
PoStepMissingCounts(d, enrolments, acc, mapping, courseOutcome) ==
    IF IsNull(courseOutcome)
    THEN [acc EXCEPT !.totalWeight = @ + PoWeight(mapping)]
    ELSE PoStepFor(d, acc, mapping, courseOutcome[1],
            SelectSeq(enrolments,
                LAMBDA enrolment : enrolment.courseId = courseOutcome[1].courseId))

(* The callback of relevantMappings.forEach. *)
PoStep(d, enrolments, acc, mapping, courseOutcome) ==
    IF IsNull(courseOutcome) THEN acc
    ELSE PoStepFor(d, acc, mapping, courseOutcome[1],
            SelectSeq(enrolments,
                LAMBDA enrolment : enrolment.courseId = courseOutcome[1].courseId))

RECURSIVE PoTotals(_, _, _, _)
PoTotals(d, enrolments, mappings, acc) ==
    IF mappings = <<>> THEN acc
    ELSE PoTotals(d, enrolments, Tail(mappings),
            PoStep(d, enrolments, acc, Head(mappings),
                   getCourseOutcome(d, Head(mappings).courseOutcomeId)))

PoResult(totals) ==
    IF totals.totalWeight = 0 THEN Null
    ELSE Some(RDiv(totals.weightedSum, RInt(totals.totalWeight)))

PoOfMappings(d, programOutcome, enrolments, relevantMappings) ==
    IF IsNull(programOutcome) THEN Null
    ELSE IF Len(enrolments) = 0 THEN Null
    ELSE IF Len(relevantMappings) = 0 THEN Null
    ELSE PoResult(PoTotals(d, enrolments, relevantMappings,
            [totalWeight |-> 0, weightedSum |-> RInt(0)]))

(* semesterId = 0 is the default `semesterId = null`: no filter. *)
calculateProgramOutcomeAchievementForStudent(d, studentId, programOutcomeId, semesterId) ==
    PoOfMappings(d, getProgramOutcome(d, programOutcomeId),
        SelectSeq(d.enrolments, LAMBDA enrolment :
            enrolment.studentId = studentId
                /\ (semesterId = 0 \/ enrolment.semesterId = semesterId)),
        SelectSeq(d.coPoMappings,
            LAMBDA mapping : mapping.programOutcomeId = programOutcomeId))

(***************************************************************************)
(* Report views                                                             *)
(***************************************************************************)
(* value.toFixed(2) + '%': the value rounded to hundredths (ties away from  *)
(* zero), kept as a sign and a count of hundredths: 80.00% is cents 8000.   *)
formatPercentage(value) ==
    [neg |-> value.n < 0,
     cents |-> (200 * Abs(value.n) + value.d) \div (2 * value.d)]

(* Faulty variant: the comparison is strict. *)
AttainmentStatusStrict(value) ==
    IF value.n > 60 * value.d THEN "Achieved" ELSE "Needs Attention"

AttainmentStatus(value) ==
    IF RGeq(value, RInt(60)) THEN "Achieved" ELSE "Needs Attention"

(* One <tr>: the outcome code, the achievement cell (Null is the dash) and  *)
(* the status cell.                                                         *)
NoDataRow(outcome, text) ==
    [code |-> outcome.code, achievement |-> Null, status |-> text]

ValueRow(outcome, value) ==
    [code |-> outcome.code, achievement |-> Some(formatPercentage(value)),
     status |-> AttainmentStatus(value)]

(* Faulty variant: the test is if (!attainment), which a 0 passes as well. *)
AttainmentRowFalsy(outcome, attainment, text) ==
    IF IsNull(attainment) \/ attainment = Some(RInt(0))
    THEN NoDataRow(outcome, text)
    ELSE ValueRow(outcome, attainment[1])

(* if (attainment === null) ... else ... *)
AttainmentRow(outcome, attainment, text) ==
    IF IsNull(attainment) THEN NoDataRow(outcome, text) ELSE ValueRow(outcome, attainment[1])

(* if (attainments.length === 0) ... else the row of their average *)
AverageRow(outcome, attainments, text) ==
    IF Len(attainments) = 0 THEN NoDataRow(outcome, text)
    ELSE ValueRow(outcome, Average(attainments))

EmptyState(text) == [message |-> text, rows |-> <<>>]

Table(rows) == [message |-> "", rows |-> rows]

CoStudentTable(d, studentId, courseId, enrolment, courseOutcomes) ==
    IF studentId = 0 \/ courseId = 0
    THEN EmptyState("Select a student and course to view attainment.")
    ELSE IF IsNull(enrolment)
    THEN EmptyState("No enrolment found for the selected student and course.")
    ELSE IF Len(courseOutcomes) = 0
    THEN EmptyState("No course outcomes configured for the selected course.")
    ELSE Table([i \in 1..Len(courseOutcomes) |->
            AttainmentRow(courseOutcomes[i],
                calculateCourseOutcomeAchievement(d, enrolment[1], courseOutcomes[i].id),
                "No assessment mapping")])

renderCoAchievementForStudent(d, studentId, courseId) ==
    CoStudentTable(d, studentId, courseId,
        findLatestEnrolment(d, studentId, courseId),
        SelectSeq(d.courseOutcomes, LAMBDA outcome : outcome.courseId = courseId))

CoSemesterTable(d, courseId, semesterId, enrolments, courseOutcomes) ==
    IF courseId = 0 \/ semesterId = 0
    THEN EmptyState("Select a course and semester to view attainment.")
    ELSE IF Len(enrolments) = 0
    THEN EmptyState("No enrolments found for the selected course and semester.")
    ELSE IF Len(courseOutcomes) = 0
    THEN EmptyState("No course outcomes configured for the selected course.")
    ELSE Table([i \in 1..Len(courseOutcomes) |->
            AverageRow(courseOutcomes[i],
                       CoAttainments(d, enrolments, courseOutcomes[i].id),
                       "No marks uploaded")])

(* Faulty variant: the group is every enrolment of the course, whatever its semester. *)
renderCoAchievementForSemesterAnySemester(d, courseId, semesterId) ==
    CoSemesterTable(d, courseId, semesterId,
        SelectSeq(d.enrolments, LAMBDA enrolment : enrolment.courseId = courseId),
        SelectSeq(d.courseOutcomes, LAMBDA outcome : outcome.courseId = courseId))

renderCoAchievementForSemester(d, courseId, semesterId) ==
    CoSemesterTable(d, courseId, semesterId,
        SelectSeq(d.enrolments, LAMBDA enrolment :
            enrolment.courseId = courseId /\ enrolment.semesterId = semesterId),
        SelectSeq(d.courseOutcomes, LAMBDA outcome : outcome.courseId = courseId))

PoStudentTable(d, studentId, programOutcomes) ==
    IF Len(programOutcomes) = 0
    THEN EmptyState("No program outcomes configured for the student's program.")
    ELSE Table([i \in 1..Len(programOutcomes) |->
            AttainmentRow(programOutcomes[i],
                calculateProgramOutcomeAchievementForStudent(
                    d, studentId, programOutcomes[i].id, 0),
                "No contributing CO attainment")])

PoStudentReport(d, studentId, student) ==
    IF studentId = 0
    THEN EmptyState("Select a student to generate the report.")
    ELSE IF IsNull(student)
    THEN EmptyState("Student not found.")
    ELSE PoStudentTable(d, studentId, SelectSeq(d.programOutcomes,
            LAMBDA outcome : outcome.programId = student[1].programId))

renderPoAchievementForStudent(d, studentId) ==
    PoStudentReport(d, studentId, getStudent(d, studentId))

NullAsZero(attainment) == IF IsNull(attainment) THEN Some(RInt(0)) ELSE attainment

(* Faulty variant: a student without a value counts as 0. *)
RECURSIVE PoAttainmentsNullAsZero(_, _, _, _)
PoAttainmentsNullAsZero(d, students, programOutcomeId, semesterId) ==
    IF students = <<>> THEN <<>>
    ELSE NullAsZero(calculateProgramOutcomeAchievementForStudent(
                d, Head(students).id, programOutcomeId, semesterId))
            \o PoAttainmentsNullAsZero(d, Tail(students), programOutcomeId, semesterId)

(* students.map(s => calculateProgramOutcomeAchievementForStudent(...))     *)
(*         .filter(value => value !== null)                                 *)
RECURSIVE PoAttainments(_, _, _, _)
PoAttainments(d, students, programOutcomeId, semesterId) ==
    IF students = <<>> THEN <<>>
    ELSE calculateProgramOutcomeAchievementForStudent(
                d, Head(students).id, programOutcomeId, semesterId)
            \o PoAttainments(d, Tail(students), programOutcomeId, semesterId)

PoSemesterTable(d, programId, semesterId, programOutcomes, students) ==
    IF programId = 0 \/ semesterId = 0
    THEN EmptyState("Select a program and semester to generate the report.")
    ELSE IF Len(programOutcomes) = 0
    THEN EmptyState("No program outcomes configured for the selected program.")
    ELSE Table([i \in 1..Len(programOutcomes) |->
            AverageRow(programOutcomes[i],
                       PoAttainments(d, students, programOutcomes[i].id, semesterId),
                       "No contributing data")])

renderPoAchievementForSemester(d, programId, semesterId) ==
    PoSemesterTable(d, programId, semesterId,
        SelectSeq(d.programOutcomes, LAMBDA outcome : outcome.programId = programId),
        SelectSeq(d.students, LAMBDA student : student.programId = programId))

(***************************************************************************)
(* The last report the user asked for: the filter that was submitted (the   *)
(* lastCoStudentFilter .. lastPoSemesterFilter variables) and what its      *)
(* container shows.  Only the container written last is kept.               *)
(***************************************************************************)
Shown(view, filter, content) ==
    [view |-> view, filter |-> filter, message |-> content.message, rows |-> content.rows]

NoReport == [view |-> "none", filter |-> <<>>, message |-> "", rows |-> <<>>]

Render(d, view, filter) ==
    CASE view = "co-student" ->
            Shown(view, filter, renderCoAchievementForStudent(d, filter[1], filter[2]))
      [] view = "co-semester" ->
            Shown(view, filter, renderCoAchievementForSemester(d, filter[1], filter[2]))
      [] view = "po-student" ->
            Shown(view, filter, renderPoAchievementForStudent(d, filter[1]))
      [] view = "po-semester" ->
            Shown(view, filter, renderPoAchievementForSemester(d, filter[1], filter[2]))
      [] OTHER -> NoReport

(* Re-render with the last submitted filter, if there is one. *)
regenerateReportsAfterMarkChange(d, shown) == Render(d, shown.view, shown.filter)

(***************************************************************************)
(* Bounds and input sets                                                    *)
(***************************************************************************)
MaxOps == 1

(* The page is not open in a browser. *)
NotOpen == [open |-> FALSE]

(* No request has been answered yet. *)
NoResponse == [status |-> 0, body |-> [error |-> ""]]

(* Form values: ids the selects offer, 0 for an empty selection. *)
StudentInputs == {0, 1, 2}

CourseInputs == {1, 2}

SemesterInputs == {1, 2}

MaxMarksInputs == {0, 50}

AcoWeightInputs == {0, 50}

CoPoWeightInputs == {0, 100}

MarksInputs == {0, 60}

FindById(collection, id) == First(SelectSeq(collection, LAMBDA item : item.id = id))

Exists(collection, id) == ~IsNull(FindById(collection, id))

RECURSIVE MaxId(_)
MaxId(collection) ==
    IF collection = <<>> THEN 0
    ELSE LET rest == MaxId(Tail(collection))
         IN  IF Head(collection).id > rest THEN Head(collection).id ELSE rest

(* generateId(): an id no record of the collection has. *)
generateId(collection) == MaxId(collection) + 1

NonEmpty(s) == Len(s) > 0

(***************************************************************************)
(* data.json.  A JSON text is the value it denotes: an object is its        *)
(* members, each an array (with its items) or a value that is no array.     *)
(***************************************************************************)
ArrayValue(items) == [array |-> items]

JsonObject(members) == [json |-> "object", members |-> members]

(* JSON.stringify(this.data): the text is fixed when save() is called. *)
stringify(d) == JsonObject([key \in DOMAIN d |-> ArrayValue(d[key])])

(* What data.json holds when two writes of it overlapped: no JSON text. *)
Torn == [torn |-> TRUE]

(***************************************************************************)
(* Store operations.  A request that the store rejects with a               *)
(* ValidationError changes nothing, so each guard is the conjunction of the *)
(* operation's checks.  After a successful request the client reloads the   *)
(* snapshot, so `data` is the store's content.                              *)
(***************************************************************************)
(* class ValidationError: a message and a status, 400 unless given *)
ValidationError(message, status) == [message |-> message, status |-> status]

NoError == [message |-> "", status |-> 0]

(* Each DataStore method is a pair: the ValidationError it throws (NoError  *)
(* when it throws none), the checks in the order of the code, and the       *)
(* collections after the push.  Required text fields that the model     *)
(* does not keep (names, types) are taken as given.                         *)
(* String.prototype.toLowerCase on the codes that requests carry. *)
toLowerCase(text) ==
    CASE text = "BSC" -> "bsc"
      [] text = "C101" -> "c101"
      [] text = "S1" -> "s1"
      [] text = "PO1" -> "po1"
      [] text = "CO1" -> "co1"
      [] OTHER -> text

(* Faulty variant: the codes are compared as typed. *)
addProgramErrorExactCase(d, code) ==
    IF code = ""
    THEN ValidationError("Program code and name are required.", 400)
    ELSE IF NonEmpty(SelectSeq(d.programs, LAMBDA program : program.code = code))
    THEN ValidationError("A program with this code already exists.", 409)
    ELSE NoError

addProgramError(d, code) ==
    IF code = ""
    THEN ValidationError("Program code and name are required.", 400)
    ELSE IF NonEmpty(SelectSeq(d.programs, LAMBDA program :
            toLowerCase(program.code) = toLowerCase(code)))
    THEN ValidationError("A program with this code already exists.", 409)
    ELSE NoError

addProgramData(d, code) ==
    [d EXCEPT !.programs = Append(@, [id |-> generateId(@), code |-> code])]

addSemesterError(d, sequence) == NoError

addSemesterData(d, sequence) ==
    [d EXCEPT !.semesters = Append(@, [id |-> generateId(@), sequence |-> sequence])]

addCourseError(d, code, programId, semesterId) ==
    IF code = "" \/ programId = 0 \/ semesterId = 0
    THEN ValidationError("Course code, name, program, semester and credits are required.", 400)
    ELSE IF ~Exists(d.programs, programId)
    THEN ValidationError("Referenced program does not exist.", 400)
    ELSE IF ~Exists(d.semesters, semesterId)
    THEN ValidationError("Referenced semester does not exist.", 400)
    ELSE NoError

addCourseData(d, code, programId, semesterId) ==
    [d EXCEPT !.courses = Append(@,
        [id |-> generateId(@), code |-> code, programId |-> programId,
         semesterId |-> semesterId])]

addStudentError(d, studentId, programId) ==
    IF studentId = "" \/ programId = 0
    THEN ValidationError("Student ID, name and program are required.", 400)
    ELSE IF ~Exists(d.programs, programId)
    THEN ValidationError("Referenced program does not exist.", 400)
    ELSE IF NonEmpty(SelectSeq(d.students, LAMBDA student :
            toLowerCase(student.studentId) = toLowerCase(studentId)))
    THEN ValidationError("A student with this ID already exists.", 409)
    ELSE NoError

addStudentData(d, studentId, programId) ==
    [d EXCEPT !.students = Append(@,
        [id |-> generateId(@), studentId |-> studentId, programId |-> programId])]

addEnrolmentError(d, studentId, courseId, semesterId, year) ==
    IF studentId = 0 \/ courseId = 0 \/ semesterId = 0 \/ year = ""
    THEN ValidationError("Student, course, semester and academic year are required.", 400)
    ELSE IF ~Exists(d.students, studentId)
    THEN ValidationError("Referenced student does not exist.", 400)
    ELSE IF ~Exists(d.courses, courseId)
    THEN ValidationError("Referenced course does not exist.", 400)
    ELSE IF ~Exists(d.semesters, semesterId)
    THEN ValidationError("Referenced semester does not exist.", 400)
    ELSE IF NonEmpty(SelectSeq(d.enrolments, LAMBDA enrolment :
            <<enrolment.studentId, enrolment.courseId, enrolment.semesterId, enrolment.year>>
                = <<studentId, courseId, semesterId, year>>))
    THEN ValidationError("Enrolment already exists for the provided student, course, semester and year.", 409)
    ELSE NoError

addEnrolmentData(d, studentId, courseId, semesterId, year) ==
    [d EXCEPT !.enrolments = Append(@,
        [id |-> generateId(@), studentId |-> studentId, courseId |-> courseId,
         semesterId |-> semesterId, year |-> year])]

addProgramOutcomeError(d, programId, code) ==
    IF programId = 0 \/ code = ""
    THEN ValidationError("Program and outcome code are required.", 400)
    ELSE IF ~Exists(d.programs, programId)
    THEN ValidationError("Referenced program does not exist.", 400)
    ELSE IF NonEmpty(SelectSeq(d.programOutcomes, LAMBDA outcome :
            <<outcome.programId, toLowerCase(outcome.code)>>
                = <<programId, toLowerCase(code)>>))
    THEN ValidationError("An outcome with this code already exists for the program.", 409)
    ELSE NoError

addProgramOutcomeData(d, programId, code) ==
    [d EXCEPT !.programOutcomes = Append(@,
        [id |-> generateId(@), programId |-> programId, code |-> code])]

addCourseOutcomeError(d, courseId, code) ==
    IF courseId = 0 \/ code = ""
    THEN ValidationError("Course and outcome code are required.", 400)
    ELSE IF ~Exists(d.courses, courseId)
    THEN ValidationError("Referenced course does not exist.", 400)
    ELSE IF NonEmpty(SelectSeq(d.courseOutcomes, LAMBDA outcome :
            <<outcome.courseId, toLowerCase(outcome.code)>>
                = <<courseId, toLowerCase(code)>>))
    THEN ValidationError("An outcome with this code already exists for the course.", 409)
    ELSE NoError

addCourseOutcomeData(d, courseId, code) ==
    [d EXCEPT !.courseOutcomes = Append(@,
        [id |-> generateId(@), courseId |-> courseId, code |-> code])]

(* Faulty variant: the pair is not looked up. *)
addCoPoMappingErrorNoLookup(d, courseOutcomeId, programOutcomeId, weight) ==
    IF courseOutcomeId = 0 \/ programOutcomeId = 0
    THEN ValidationError("Course outcome, program outcome and weight are required.", 400)
    ELSE IF ~Exists(d.courseOutcomes, courseOutcomeId)
    THEN ValidationError("Referenced course outcome does not exist.", 400)
    ELSE IF ~Exists(d.programOutcomes, programOutcomeId)
    THEN ValidationError("Referenced program outcome does not exist.", 400)
    ELSE NoError

addCoPoMappingError(d, courseOutcomeId, programOutcomeId, weight) ==
    IF courseOutcomeId = 0 \/ programOutcomeId = 0
    THEN ValidationError("Course outcome, program outcome and weight are required.", 400)
    ELSE IF ~Exists(d.courseOutcomes, courseOutcomeId)
    THEN ValidationError("Referenced course outcome does not exist.", 400)
    ELSE IF ~Exists(d.programOutcomes, programOutcomeId)
    THEN ValidationError("Referenced program outcome does not exist.", 400)
    ELSE IF NonEmpty(SelectSeq(d.coPoMappings, LAMBDA mapping :
            <<mapping.courseOutcomeId, mapping.programOutcomeId>>
                = <<courseOutcomeId, programOutcomeId>>))
    THEN ValidationError("The CO and PO are already mapped.", 409)
    ELSE NoError

addCoPoMappingData(d, courseOutcomeId, programOutcomeId, weight) ==
    [d EXCEPT !.coPoMappings = Append(@,
        [id |-> generateId(@), courseOutcomeId |-> courseOutcomeId,
         programOutcomeId |-> programOutcomeId, weight |-> weight])]

addAssessmentError(d, courseId, maxMarks, semesterId) ==
    IF courseId = 0 \/ semesterId = 0
    THEN ValidationError("Assessment course, name, type, max marks and semester are required.", 400)
    ELSE IF ~Exists(d.courses, courseId)
    THEN ValidationError("Referenced course does not exist.", 400)
    ELSE IF ~Exists(d.semesters, semesterId)
    THEN ValidationError("Referenced semester does not exist.", 400)
    ELSE NoError

addAssessmentData(d, courseId, maxMarks, semesterId) ==
    [d EXCEPT !.assessments = Append(@,
        [id |-> generateId(@), courseId |-> courseId, maxMarks |-> maxMarks,
         semesterId |-> semesterId])]

addAssessmentCoMappingError(d, assessmentId, courseOutcomeId, weight) ==
    IF assessmentId = 0 \/ courseOutcomeId = 0
    THEN ValidationError("Assessment, course outcome and weight are required.", 400)
    ELSE IF ~Exists(d.assessments, assessmentId)
    THEN ValidationError("Referenced assessment does not exist.", 400)
    ELSE IF ~Exists(d.courseOutcomes, courseOutcomeId)
    THEN ValidationError("Referenced course outcome does not exist.", 400)
    ELSE IF NonEmpty(SelectSeq(d.assessmentCoMappings, LAMBDA mapping :
            <<mapping.assessmentId, mapping.courseOutcomeId>>
                = <<assessmentId, courseOutcomeId>>))
    THEN ValidationError("The assessment and course outcome are already mapped.", 409)
    ELSE NoError

addAssessmentCoMappingData(d, assessmentId, courseOutcomeId, weight) ==
    [d EXCEPT !.assessmentCoMappings = Append(@,
        [id |-> generateId(@), assessmentId |-> assessmentId,
         courseOutcomeId |-> courseOutcomeId, weight |-> weight])]

(* Faulty variant: every upload pushes a record. *)
UpsertedMarksAlwaysPush(marks, enrolmentId, assessmentId, value) ==
    Append(marks, [id |-> generateId(marks), enrolmentId |-> enrolmentId,
                   assessmentId |-> assessmentId, marks |-> value])

(* The marks collection after the upsert: the first record of the pair is   *)
(* overwritten in place, or a new record is pushed.                         *)
UpsertedMarks(marks, enrolmentId, assessmentId, value) ==
    LET IsPair(mark) == mark.enrolmentId = enrolmentId /\ mark.assessmentId = assessmentId
        entry == First(SelectSeq(marks, IsPair))
    IN  IF ~IsNull(entry)
        THEN [i \in 1..Len(marks) |->
                IF marks[i].id = entry[1].id /\ IsPair(marks[i])
                THEN [marks[i] EXCEPT !.marks = value] ELSE marks[i]]
        ELSE Append(marks, [id |-> generateId(marks), enrolmentId |-> enrolmentId,
                            assessmentId |-> assessmentId, marks |-> value])

(* Faulty variant: the assessment is not looked up. *)
upsertMarkErrorAnyAssessment(d, enrolmentId, assessmentId, marks) ==
    IF enrolmentId = 0 \/ assessmentId = 0
    THEN ValidationError("Enrolment, assessment and marks are required.", 400)
    ELSE IF ~Exists(d.enrolments, enrolmentId)
    THEN ValidationError("Referenced enrolment does not exist.", 400)
    ELSE NoError

upsertMarkError(d, enrolmentId, assessmentId, marks) ==
    IF enrolmentId = 0 \/ assessmentId = 0
    THEN ValidationError("Enrolment, assessment and marks are required.", 400)
    ELSE IF ~Exists(d.enrolments, enrolmentId)
    THEN ValidationError("Referenced enrolment does not exist.", 400)
    ELSE IF ~Exists(d.assessments, assessmentId)
    THEN ValidationError("Referenced assessment does not exist.", 400)
    ELSE NoError

(* created: no record of the pair was there *)
upsertMarkCreated(d, enrolmentId, assessmentId) ==
    ~NonEmpty(SelectSeq(d.marks, LAMBDA mark :
        mark.enrolmentId = enrolmentId /\ mark.assessmentId = assessmentId))

(* the record of the pair *)
upsertMarkEntry(d, enrolmentId, assessmentId) ==
    SelectSeq(d.marks, LAMBDA mark :
        mark.enrolmentId = enrolmentId /\ mark.assessmentId = assessmentId)[1]

upsertMarkData(d, enrolmentId, assessmentId, marks) ==
    [d EXCEPT !.marks = UpsertedMarks(@, enrolmentId, assessmentId, marks)]

UpsertedCourseReports(reports, courseId, semesterId, year, summary) ==
    LET IsKey(entry) ==
            <<entry.courseId, entry.semesterId, entry.year>> = <<courseId, semesterId, year>>
        entry == First(SelectSeq(reports, IsKey))
    IN  IF ~IsNull(entry)
        THEN [i \in 1..Len(reports) |->
                IF reports[i].id = entry[1].id /\ IsKey(reports[i])
                THEN [reports[i] EXCEPT !.summary = summary] ELSE reports[i]]
        ELSE Append(reports, [id |-> generateId(reports), courseId |-> courseId,
                              semesterId |-> semesterId, year |-> year,
                              summary |-> summary])

upsertCourseReportError(d, courseId, semesterId, year) ==
    IF courseId = 0 \/ semesterId = 0 \/ year = ""
    THEN ValidationError("Course, semester and academic year are required.", 400)
    ELSE IF ~Exists(d.courses, courseId)
    THEN ValidationError("Referenced course does not exist.", 400)
    ELSE IF ~Exists(d.semesters, semesterId)
    THEN ValidationError("Referenced semester does not exist.", 400)
    ELSE NoError

upsertCourseReportCreated(d, courseId, semesterId, year) ==
    ~NonEmpty(SelectSeq(d.courseReports, LAMBDA entry :
        <<entry.courseId, entry.semesterId, entry.year>> = <<courseId, semesterId, year>>))

upsertCourseReportEntry(d, courseId, semesterId, year) ==
    SelectSeq(d.courseReports, LAMBDA entry :
        <<entry.courseId, entry.semesterId, entry.year>> = <<courseId, semesterId, year>>)[1]

upsertCourseReportData(d, courseId, semesterId, year, summary) ==
    [d EXCEPT !.courseReports =
        UpsertedCourseReports(@, courseId, semesterId, year, summary)]

(* save() has written the store when the method returns, and the form     *)
(* handlers wait for the answer before the next request is sent: nothing is *)
(* in flight between two steps of the client.                               *)
Saved ==
    /\ file' = stringify(data')
    /\ UNCHANGED <<pending, response, server, client>>

(* The forms of the client: the request is accepted, the client reloads the *)
(* snapshot.                                                                *)
addEnrolment(studentId, courseId, semesterId, year) ==
    /\ ops < MaxOps
    /\ addEnrolmentError(data, studentId, courseId, semesterId, year) = NoError
    /\ data' = addEnrolmentData(data, studentId, courseId, semesterId, year)
    /\ ops' = ops + 1
    /\ Saved
    /\ UNCHANGED report

addAssessment(courseId, maxMarks, semesterId) ==
    /\ ops < MaxOps
    /\ addAssessmentError(data, courseId, maxMarks, semesterId) = NoError
    /\ data' = addAssessmentData(data, courseId, maxMarks, semesterId)
    /\ ops' = ops + 1
    /\ Saved
    /\ UNCHANGED report

addAssessmentCoMapping(assessmentId, courseOutcomeId, weight) ==
    /\ ops < MaxOps
    /\ addAssessmentCoMappingError(data, assessmentId, courseOutcomeId, weight) = NoError
    /\ data' = addAssessmentCoMappingData(data, assessmentId, courseOutcomeId, weight)
    /\ ops' = ops + 1
    /\ Saved
    /\ UNCHANGED report

addCoPoMapping(courseOutcomeId, programOutcomeId, weight) ==
    /\ ops < MaxOps
    /\ addCoPoMappingError(data, courseOutcomeId, programOutcomeId, weight) = NoError
    /\ data' = addCoPoMappingData(data, courseOutcomeId, programOutcomeId, weight)
    /\ ops' = ops + 1
    /\ Saved
    /\ UNCHANGED report

(* The mark form: the upsert, the reload, and the reports regenerated with  *)
(* the last submitted filter.                                               *)
upsertMark(enrolmentId, assessmentId, marks) ==
    /\ ops < MaxOps
    /\ upsertMarkError(data, enrolmentId, assessmentId, marks) = NoError
    /\ data' = upsertMarkData(data, enrolmentId, assessmentId, marks)
    /\ ops' = ops + 1
    /\ Saved
    /\ report' = regenerateReportsAfterMarkChange(data', report)

(***************************************************************************)
(* Report filter forms                                                      *)
(***************************************************************************)
CoStudentFilterSubmit(studentId, courseId) ==
    /\ report' = Render(data, "co-student", <<studentId, courseId>>)
    /\ UNCHANGED <<data, ops, pending, file, response, server, client>>

(* Faulty variant: the group is cut out of data.enrolments itself. *)
CoSemesterFilterSubmitInPlace(courseId, semesterId) ==
    /\ data' = [data EXCEPT !.enrolments = SelectSeq(@, LAMBDA enrolment :
                    enrolment.courseId = courseId /\ enrolment.semesterId = semesterId)]
    /\ report' = Render(data', "co-semester", <<courseId, semesterId>>)
    /\ UNCHANGED <<ops, pending, file, response, server, client>>

CoSemesterFilterSubmit(courseId, semesterId) ==
    /\ report' = Render(data, "co-semester", <<courseId, semesterId>>)
    /\ UNCHANGED <<data, ops, pending, file, response, server, client>>

(* Faulty variant: the rows are added to those the container already shows. *)
PoStudentFilterSubmitAppending(studentId) ==
    /\ report' = [Render(data, "po-student", <<studentId>>) EXCEPT !.rows = report.rows \o @]
    /\ UNCHANGED <<data, ops, pending, file, response, server, client>>

PoStudentFilterSubmit(studentId) ==
    /\ report' = Render(data, "po-student", <<studentId>>)
    /\ UNCHANGED <<data, ops, pending, file, response, server, client>>

PoSemesterFilterSubmit(programId, semesterId) ==
    /\ report' = Render(data, "po-semester", <<programId, semesterId>>)
    /\ UNCHANGED <<data, ops, pending, file, response, server, client>>

(***************************************************************************)
(* Initial snapshots: what DataStore.init loads from data.json and the      *)
(* client fetches.  Each is a store content the operations above produce,   *)
(* except the two marked dangling, which take a hand-edited data.json.      *)
(***************************************************************************)
WithIds(records) == [i \in 1..Len(records) |-> [records[i] EXCEPT !.id = i]]

Enr(studentId, courseId, semesterId) ==
    [id |-> 0, studentId |-> studentId, courseId |-> courseId,
     semesterId |-> semesterId, year |-> "2024"]

Asm(courseId, maxMarks) ==
    [id |-> 0, courseId |-> courseId, maxMarks |-> maxMarks, semesterId |-> 1]

Aco(assessmentId, courseOutcomeId, weight) ==
    [id |-> 0, assessmentId |-> assessmentId, courseOutcomeId |-> courseOutcomeId,
     weight |-> weight]

Cpm(courseOutcomeId, programOutcomeId, weight) ==
    [id |-> 0, courseOutcomeId |-> courseOutcomeId, programOutcomeId |-> programOutcomeId,
     weight |-> weight]

Mrk(enrolmentId, assessmentId, marks) ==
    [id |-> 0, enrolmentId |-> enrolmentId, assessmentId |-> assessmentId, marks |-> marks]

(* An optional record: a weight or mark of -1 leaves it out. *)
Opt(value, record) == IF value = -1 THEN <<>> ELSE <<record>>

Snapshot(enrolments, maxMarks2, acoMappings, cpMappings, marks) ==
    [programs |-> <<[id |-> 1, code |-> "BSC"], [id |-> 2, code |-> "MSC"]>>,
     semesters |-> <<[id |-> 1, sequence |-> 1], [id |-> 2, sequence |-> 2]>>,
     courses |-> <<[id |-> 1, code |-> "K1", programId |-> 1, semesterId |-> 1],
                   [id |-> 2, code |-> "K2", programId |-> 1, semesterId |-> 2]>>,
     students |-> <<[id |-> 1, studentId |-> "T1", programId |-> 1],
                    [id |-> 2, studentId |-> "T2", programId |-> 1],
                    [id |-> 3, studentId |-> "T3", programId |-> 2]>>,
     enrolments |-> WithIds(enrolments),
     programOutcomes |-> <<[id |-> 1, programId |-> 1, code |-> "PO1"],
                           [id |-> 2, programId |-> 2, code |-> "PO2"]>>,
     courseOutcomes |-> <<[id |-> 1, courseId |-> 1, code |-> "CO1"],
                          [id |-> 2, courseId |-> 1, code |-> "CO2"],
                          [id |-> 3, courseId |-> 2, code |-> "CO3"]>>,
     coPoMappings |-> WithIds(cpMappings),
     assessments |-> WithIds(<<Asm(1, 50), Asm(1, maxMarks2), Asm(2, 20)>>),
     assessmentCoMappings |-> WithIds(acoMappings),
     marks |-> WithIds(marks),
     courseReports |-> <<>>]

(* One enrolment; the mappings of CO1, the second assessment's maximum and  *)
(* the mark vary.                                                           *)
CoSnapshots ==
    { Snapshot(<<Enr(1, 1, 1)>>, m2,
               <<Aco(1, 1, w1)>> \o Opt(w2, Aco(2, 1, w2)),
               <<Cpm(1, 1, 100)>>,
               Opt(mark, Mrk(1, 1, mark)))
        : m2 \in {50, 0}, w1 \in {0, 50, 100}, w2 \in {-1, 50}, mark \in {-1, 40} }

(* A mapping of CO1 to an assessment of the other course, and one to an     *)
(* assessment that does not exist; a CO->PO mapping of a missing CO.        *)
FilterSnapshots ==
    { Snapshot(<<Enr(1, 1, 1)>>, 50,
               Opt(w1, Aco(1, 1, w1)) \o <<Aco(other, 1, 100)>>,
               Opt(dangling, Cpm(9, 1, 100)) \o <<Cpm(1, 1, 100)>>,
               <<Mrk(1, 1, 40)>>)
        : w1 \in {-1, 50}, other \in {3, 9}, dangling \in {-1, 0} }

EnrolmentLayouts ==
    { <<Enr(1, 1, 1)>>,
      <<Enr(1, 1, 1), Enr(1, 1, 2)>>,
      <<Enr(1, 1, 1), Enr(2, 1, 1)>>,
      <<Enr(1, 1, 1), Enr(1, 2, 1)>>,
      <<Enr(1, 1, 1), Enr(3, 1, 1)>> }

(* Every course outcome mapped to an assessment; the enrolments and the     *)
(* CO->PO weights vary.                                                     *)
PoSnapshots ==
    { Snapshot(enrolments, 50,
               <<Aco(1, 1, 100), Aco(2, 2, 0), Aco(3, 3, 50)>>,
               <<Cpm(1, 1, w1)>> \o Opt(w2, Cpm(2, 1, w2)) \o Opt(w3, Cpm(3, 1, w3)),
               <<Mrk(1, 1, 40), Mrk(1, 2, 10), Mrk(2, 1, 30)>>)
        : enrolments \in EnrolmentLayouts, w1 \in {0, 50}, w2 \in {-1, 100}, w3 \in {-1, 0} }

Init ==
    /\ data \in CoSnapshots \cup FilterSnapshots \cup PoSnapshots
    /\ report = NoReport
    /\ ops = 0
    /\ pending = <<>>
    /\ file = stringify(data)
    /\ response = NoResponse
    /\ server = "serving"
    /\ client = NotOpen

Next ==
    \/ \E studentId \in StudentInputs, courseId \in CourseInputs, semesterId \in SemesterInputs :
            addEnrolment(studentId, courseId, semesterId, "2024")
    \/ \E courseId \in CourseInputs, maxMarks \in MaxMarksInputs :
            addAssessment(courseId, maxMarks, 1)
    \/ \E assessmentId \in {2, 3}, courseOutcomeId \in {1, 2}, weight \in AcoWeightInputs :
            addAssessmentCoMapping(assessmentId, courseOutcomeId, weight)
    \/ \E courseOutcomeId \in {2, 3}, weight \in CoPoWeightInputs :
            addCoPoMapping(courseOutcomeId, 1, weight)
    \/ \E enrolmentId \in {1, 2}, assessmentId \in {1, 2}, marks \in MarksInputs :
            upsertMark(enrolmentId, assessmentId, marks)
    \/ \E studentId \in StudentInputs : CoStudentFilterSubmit(studentId, 1)
    \/ \E courseId \in CourseInputs : CoSemesterFilterSubmit(courseId, 1)
    \/ \E studentId \in {1, 2} : PoStudentFilterSubmit(studentId)
    \/ \E semesterId \in SemesterInputs : PoSemesterFilterSubmit(1, semesterId)

Spec == Init /\ [][Next]_vars

(***************************************************************************)
(* The server under concurrent requests.  A DataStore method runs without   *)
(* interruption from its first check to `await this.save()`: the store is   *)
(* changed and fs.writeFile is started in one step.  The write finishes, and *)
(* the route answers, in a later step; other requests run in between.       *)
(***************************************************************************)
MaxRequests == 8

MaxInFlight == 2

(* Collections without a natural key (semesters, courses, assessments) take *)
(* any number of records; the model stops at MaxRecords of each.            *)
MaxRecords == 1

(* initialData: the twelve collections, all empty *)
initialData ==
    [programs |-> <<>>, semesters |-> <<>>, courses |-> <<>>, students |-> <<>>,
     enrolments |-> <<>>, programOutcomes |-> <<>>, courseOutcomes |-> <<>>,
     coPoMappings |-> <<>>, assessments |-> <<>>, assessmentCoMappings |-> <<>>,
     marks |-> <<>>, courseReports |-> <<>>]

(* The record a method returns is the object held by the store, not a copy. *)
EntryOf(d, collection, id) == FindById(d[collection], id)[1]

(* handleError: a ValidationError is answered with its status at once. *)
handleError(error) ==
    /\ response' = [status |-> error.status, body |-> [error |-> error.message]]
    /\ UNCHANGED <<data, report, ops, pending, file, server, client>>

(* The method has changed the store and waits for the write it started. *)
save(collection, id, status, d) ==
    /\ ops < MaxRequests
    /\ Len(pending) < MaxInFlight
    /\ data' = d
    /\ pending' = Append(pending, [collection |-> collection, id |-> id,
                                   status |-> status, content |-> stringify(d)])
    /\ ops' = ops + 1
    /\ UNCHANGED <<report, file, response, server, client>>

(* A write that was started finishes: writes of the same file that are in   *)
(* flight together finish in any order, and the file holds the text of the  *)
(* one that finishes, or a mix of the overlapping texts.  The route then    *)
(* answers with the record as the store holds it now.                       *)
writeFileCompletes(i) ==
    /\ i \in DOMAIN pending
    /\ file' \in {pending[i].content} \cup (IF Len(pending) > 1 THEN {Torn} ELSE {})
    /\ response' = [status |-> pending[i].status,
                    body |-> EntryOf(data, pending[i].collection, pending[i].id)]
    /\ pending' = SubSeq(pending, 1, i - 1) \o SubSeq(pending, i + 1, Len(pending))
    /\ UNCHANGED <<data, report, ops, server, client>>

(* Faulty variant: the program is pushed before the code is checked. *)
PostProgramsPushFirst(code) ==
    IF addProgramError(data, code) # NoError
    THEN /\ data' = addProgramData(data, code)
         /\ response' = [status |-> addProgramError(data, code).status,
                         body |-> [error |-> addProgramError(data, code).message]]
         /\ UNCHANGED <<report, ops, pending, file, server, client>>
    ELSE save("programs", generateId(data.programs), 201,
              addProgramData(data, code))

PostPrograms(code) ==
    IF addProgramError(data, code) # NoError
    THEN handleError(addProgramError(data, code))
    ELSE save("programs", generateId(data.programs), 201,
              addProgramData(data, code))

PostSemesters(sequence) ==
    IF addSemesterError(data, sequence) # NoError
    THEN handleError(addSemesterError(data, sequence))
    ELSE /\ Len(data.semesters) < MaxRecords
         /\ save("semesters", generateId(data.semesters), 201,
                 addSemesterData(data, sequence))

PostCourses(code, programId, semesterId) ==
    IF addCourseError(data, code, programId, semesterId) # NoError
    THEN handleError(addCourseError(data, code, programId, semesterId))
    ELSE /\ Len(data.courses) < MaxRecords
         /\ save("courses", generateId(data.courses), 201,
                 addCourseData(data, code, programId, semesterId))

PostStudents(studentId, programId) ==
    IF addStudentError(data, studentId, programId) # NoError
    THEN handleError(addStudentError(data, studentId, programId))
    ELSE save("students", generateId(data.students), 201,
              addStudentData(data, studentId, programId))

PostEnrolments(studentId, courseId, semesterId, year) ==
    IF addEnrolmentError(data, studentId, courseId, semesterId, year) # NoError
    THEN handleError(addEnrolmentError(data, studentId, courseId, semesterId, year))
    ELSE save("enrolments", generateId(data.enrolments), 201,
              addEnrolmentData(data, studentId, courseId, semesterId, year))

PostProgramOutcomes(programId, code) ==
    IF addProgramOutcomeError(data, programId, code) # NoError
    THEN handleError(addProgramOutcomeError(data, programId, code))
    ELSE save("programOutcomes", generateId(data.programOutcomes),
              201, addProgramOutcomeData(data, programId, code))

PostCourseOutcomes(courseId, code) ==
    IF addCourseOutcomeError(data, courseId, code) # NoError
    THEN handleError(addCourseOutcomeError(data, courseId, code))
    ELSE save("courseOutcomes", generateId(data.courseOutcomes),
              201, addCourseOutcomeData(data, courseId, code))

PostCoPoMappings(courseOutcomeId, programOutcomeId, weight) ==
    IF addCoPoMappingError(data, courseOutcomeId, programOutcomeId, weight) # NoError
    THEN handleError(addCoPoMappingError(data, courseOutcomeId, programOutcomeId, weight))
    ELSE save("coPoMappings", generateId(data.coPoMappings), 201,
              addCoPoMappingData(data, courseOutcomeId, programOutcomeId, weight))

PostAssessments(courseId, maxMarks, semesterId) ==
    IF addAssessmentError(data, courseId, maxMarks, semesterId) # NoError
    THEN handleError(addAssessmentError(data, courseId, maxMarks, semesterId))
    ELSE /\ Len(data.assessments) < MaxRecords
         /\ save("assessments", generateId(data.assessments), 201,
                 addAssessmentData(data, courseId, maxMarks, semesterId))

PostAssessmentCoMappings(assessmentId, courseOutcomeId, weight) ==
    IF addAssessmentCoMappingError(data, assessmentId, courseOutcomeId, weight) # NoError
    THEN handleError(addAssessmentCoMappingError(data, assessmentId, courseOutcomeId, weight))
    ELSE save("assessmentCoMappings",
              generateId(data.assessmentCoMappings), 201,
              addAssessmentCoMappingData(data, assessmentId, courseOutcomeId, weight))

PostMarks(enrolmentId, assessmentId, marks) ==
    IF upsertMarkError(data, enrolmentId, assessmentId, marks) # NoError
    THEN handleError(upsertMarkError(data, enrolmentId, assessmentId, marks))
    ELSE save("marks",
              upsertMarkEntry(upsertMarkData(data, enrolmentId, assessmentId, marks),
                              enrolmentId, assessmentId).id,
              IF upsertMarkCreated(data, enrolmentId, assessmentId) THEN 201 ELSE 200,
              upsertMarkData(data, enrolmentId, assessmentId, marks))

PostCourseReports(courseId, semesterId, year, summary) ==
    IF upsertCourseReportError(data, courseId, semesterId, year) # NoError
    THEN handleError(upsertCourseReportError(data, courseId, semesterId, year))
    ELSE /\ Len(data.courseReports) < MaxRecords
         /\ save("courseReports",
                 upsertCourseReportEntry(
                     upsertCourseReportData(data, courseId, semesterId, year, summary),
                     courseId, semesterId, year).id,
                 IF upsertCourseReportCreated(data, courseId, semesterId, year)
                 THEN 201 ELSE 200,
                 upsertCourseReportData(data, courseId, semesterId, year, summary))

(* Request bodies.  Every request names the first record of the collections *)
(* it refers to, whether or not that record exists yet.  "" is a field left *)
(* empty.                                                                   *)
ProgramCodeInputs == {"", "BSC"}

YearInputs == {"2024"}

StoredMaxMarksInputs == {0, 50}

StoredAcoWeightInputs == {-5, 50}

StoredCoPoWeightInputs == {0, 150}

SummaryInputs == {"revise"}

(* init() with no data.json: the empty store, written to the file. *)
StoreInit ==
    /\ data = initialData
    /\ report = NoReport
    /\ ops = 0
    /\ pending = <<>>
    /\ file = stringify(initialData)
    /\ response = NoResponse
    /\ server = "serving"
    /\ client = NotOpen

StoreNext ==
    \/ \E code \in ProgramCodeInputs : PostPrograms(code)
    \/ PostSemesters(1)
    \/ PostCourses("C101", 1, 1)
    \/ PostStudents("S1", 1)
    \/ \E year \in YearInputs : PostEnrolments(1, 1, 1, year)
    \/ PostProgramOutcomes(1, "PO1")
    \/ PostCourseOutcomes(1, "CO1")
    \/ \E weight \in StoredCoPoWeightInputs : PostCoPoMappings(1, 1, weight)
    \/ \E maxMarks \in StoredMaxMarksInputs : PostAssessments(1, maxMarks, 1)
    \/ \E weight \in StoredAcoWeightInputs : PostAssessmentCoMappings(1, 1, weight)
    \/ \E marks \in MarksInputs : PostMarks(1, 1, marks)
    \/ \E summary \in SummaryInputs : PostCourseReports(1, 1, "2024", summary)
    \/ \E i \in 1..MaxInFlight : writeFileCompletes(i)

StoreSpec == StoreInit /\ [][StoreNext]_vars

(***************************************************************************)
(* The server from its start: DataStore.init reads data.json, then the     *)
(* create routes are registered.  A write of data.json can also fail.       *)
(***************************************************************************)
(* readFile fails with ENOENT. *)
Missing == [missing |-> TRUE]

(* readFile fails with another code (EACCES, EISDIR). *)
Unreadable == [unreadable |-> TRUE]

(* The JSON text null. *)
JsonNull == [json |-> "null"]

(* A member value that is no array (a string, a number, an object). *)
NoArray == [scalar |-> TRUE]

Array_isArray(value) == "array" \in DOMAIN value

OneProgram == [id |-> 1, code |-> "BSC"]

(* The data.json the server can find at its start. *)
DataFiles ==
    { Missing, Unreadable, Torn, JsonNull,
      stringify(initialData),
      stringify([initialData EXCEPT !.programs = <<OneProgram>>]),
      JsonObject([programs |-> ArrayValue(<<OneProgram>>),
                  students |-> NoArray,
                  settings |-> ArrayValue(<<OneProgram>>)]) }

(* JSON.parse(raw) throws on a text that is no JSON. *)
JSON_parse_throws(raw) == "json" \notin DOMAIN raw

(* this.data after the loop over the seed keys: parsed[key] when it is an   *)
(* array, the seed's empty array otherwise.                                 *)
Loaded(parsed) ==
    [key \in DOMAIN initialData |->
        IF key \in DOMAIN parsed.members /\ Array_isArray(parsed.members[key])
        THEN parsed.members[key].array
        ELSE initialData[key]]

(* DataStore.init, then start(): the routes are registered after init has   *)
(* returned; an error thrown by init ends the process.  Reading a key of    *)
(* null throws a TypeError, after this.data was reset to the seed.          *)
init ==
    /\ server = "starting"
    /\ IF file = Missing
       THEN /\ file' = stringify(data)
            /\ server' = "serving"
            /\ UNCHANGED data
       ELSE IF file = Unreadable \/ JSON_parse_throws(file)
       THEN /\ server' = "failed"
            /\ UNCHANGED <<data, file>>
       ELSE IF file = JsonNull
       THEN /\ data' = initialData
            /\ server' = "failed"
            /\ UNCHANGED file
       ELSE /\ data' = Loaded(file)
            /\ file' = stringify(data')
            /\ server' = "serving"
    /\ UNCHANGED <<report, ops, pending, response, client>>

(* fs.writeFile rejects: save() throws an error that is no ValidationError, *)
(* handleError answers 500.  The record pushed before the await stays in    *)
(* this.data; the file is as it was or holds a part of the text.            *)
writeFileFails(i) ==
    /\ i \in DOMAIN pending
    /\ file' \in {file, Torn}
    /\ response' = [status |-> 500, body |-> [error |-> "Internal server error"]]
    /\ pending' = SubSeq(pending, 1, i - 1) \o SubSeq(pending, i + 1, Len(pending))
    /\ UNCHANGED <<data, report, ops, server, client>>

ProgramCodeCases == {"BSC", "bsc"}

StartInit ==
    /\ data = initialData
    /\ report = NoReport
    /\ ops = 0
    /\ pending = <<>>
    /\ file \in DataFiles
    /\ response = NoResponse
    /\ server = "starting"
    /\ client = NotOpen

(* app.listen: requests are served once start() has registered the routes. *)
listening == server = "serving"

StartNext ==
    \/ init
    \/ \E code \in ProgramCodeCases : listening /\ PostPrograms(code)
    \/ listening /\ PostSemesters(1)
    \/ listening /\ PostCourses("C101", 1, 1)
    \/ \E i \in 1..MaxInFlight : listening /\ writeFileCompletes(i)
    \/ \E i \in 1..MaxInFlight : listening /\ writeFileFails(i)

StartSpec == StartInit /\ [][StartNext]_vars

(***************************************************************************)
(* The create routes from the empty store, with the codes typed in either   *)
(* case and a student enrolled in the same course in two years.             *)
(***************************************************************************)
StudentIdCases == {"S1", "s1"}

OutcomeCodeCases == {"PO1", "po1"}

CourseOutcomeCodeCases == {"CO1", "co1"}

EnrolmentYears == {"2024", "2025"}

CreateNext ==
    \/ \E code \in ProgramCodeCases : PostPrograms(code)
    \/ PostSemesters(1)
    \/ PostCourses("C101", 1, 1)
    \/ \E studentId \in StudentIdCases : PostStudents(studentId, 1)
    \/ \E year \in EnrolmentYears : PostEnrolments(1, 1, 1, year)
    \/ \E code \in OutcomeCodeCases : PostProgramOutcomes(1, code)
    \/ \E code \in CourseOutcomeCodeCases : PostCourseOutcomes(1, code)
    \/ \E i \in 1..MaxInFlight : writeFileCompletes(i)

CreateSpec == StoreInit /\ [][CreateNext]_vars

(***************************************************************************)
(* The page in the browser: its copy of the data, the five report           *)
(* containers with their last submitted filters, and the mark form.  The    *)
(* submit handler of the mark form runs in three awaited steps: POST        *)
(* /api/marks, GET /api/data, and the renders after the reload.  Handlers   *)
(* of several submissions overlap, and their answers arrive in any order.   *)
(***************************************************************************)
MaxUploads == 2

Views == {"co-student", "co-semester", "po-student", "po-semester", "po-co"}

getProgram(d, id) ==
    First(SelectSeq(d.programs, LAMBDA program : program.id = id))

(* mappingMap.get(key): Map.set keeps the weight of the last mapping of a   *)
(* pair; Null is undefined, shown as a dash.                                *)
MappedWeight(mappings) ==
    IF Len(mappings) = 0 THEN Null ELSE Some(mappings[Len(mappings)].weight)

PoCoTable(d, programOutcomes, courseOutcomes) ==
    IF Len(programOutcomes) = 0 \/ Len(courseOutcomes) = 0
    THEN EmptyState("Add course outcomes and program outcomes to view the mapping.")
    ELSE Table([i \in 1..Len(courseOutcomes) |->
            [code |-> courseOutcomes[i].code,
             cells |-> [k \in 1..Len(programOutcomes) |->
                MappedWeight(SelectSeq(d.coPoMappings, LAMBDA mapping :
                    /\ mapping.courseOutcomeId = courseOutcomes[i].id
                    /\ mapping.programOutcomeId = programOutcomes[k].id))]]])

renderPoCoReport(d, programId) ==
    IF programId = 0
    THEN EmptyState("Select a program to generate the mapping report.")
    ELSE IF IsNull(getProgram(d, programId))
    THEN EmptyState("Program not found.")
    ELSE PoCoTable(d,
            SelectSeq(d.programOutcomes, LAMBDA outcome : outcome.programId = programId),
            SelectSeq(d.courseOutcomes, LAMBDA outcome :
                \E i \in DOMAIN d.courses :
                    /\ d.courses[i].programId = programId
                    /\ d.courses[i].id = outcome.courseId))

(* What the container of a view shows for a filter. *)
Content(d, view, filter) ==
    CASE view = "co-student" -> renderCoAchievementForStudent(d, filter[1], filter[2])
      [] view = "co-semester" -> renderCoAchievementForSemester(d, filter[1], filter[2])
      [] view = "po-student" -> renderPoAchievementForStudent(d, filter[1])
      [] view = "po-semester" -> renderPoAchievementForSemester(d, filter[1], filter[2])
      [] view = "po-co" -> renderPoCoReport(d, filter[1])

(* if (lastCoStudentFilter) ... if (lastPoCoProgramId): a filter object is  *)
(* truthy once set, the program id is truthy when it is not empty.          *)
Truthy(view, last) ==
    ~IsNull(last) /\ (view = "po-co" => last[1][1] # 0)

(* A container is kept as what it was rendered from, the page's copy of    *)
(* the data at that moment and the filter; innerHTML is what the render     *)
(* gives for them.  Null is a container that was never written.             *)
Rendered(d, filter) == [data |-> d, filter |-> filter]

innerHTML(page, view) ==
    IF IsNull(page.shown[view]) THEN Null
    ELSE Some(Content(page.shown[view][1].data, view, page.shown[view][1].filter))

(* Faulty variant: only the course outcome reports are rendered again. *)
regenerateReportsCoOnly(d, last, shown) ==
    [view \in Views |->
        IF Truthy(view, last[view]) /\ view \in {"co-student", "co-semester"}
        THEN Some(Rendered(d, last[view][1]))
        ELSE shown[view]]

(* regenerateReportsAfterMarkChange over the five containers. *)
regenerateReports(d, last, shown) ==
    [view \in Views |->
        IF Truthy(view, last[view])
        THEN Some(Rendered(d, last[view][1]))
        ELSE shown[view]]

Idle == [stage |-> "idle"]

(* One course outcome on two weighted assessments, mapped to one program    *)
(* outcome; the student's first mark is recorded.                           *)
PageSnapshots ==
    { Snapshot(<<Enr(1, 1, 1)>>, 200,
               <<Aco(1, 1, 99), Aco(2, 1, 100)>>,
               <<Cpm(1, 1, weight)>>,
               <<Mrk(1, 1, 31)>>) : weight \in {0, 100} }

(* loadInitialData has fetched the store; nothing is submitted yet. *)
Opened(d) ==
    [data |-> d, asOf |-> 0,
     last |-> [view \in Views |-> Null],
     shown |-> [view \in Views |-> Null],
     uploads |-> [n \in 1..MaxUploads |-> Idle]]

PageInit ==
    /\ data \in PageSnapshots
    /\ report = NoReport
    /\ ops = 0
    /\ pending = <<>>
    /\ file = stringify(data)
    /\ response = NoResponse
    /\ server = "serving"
    /\ client = Opened(data)

(* A filter form is submitted: the filter is remembered and its report is   *)
(* rendered from the page's copy of the data.                               *)
Submitted(view, filter) ==
    [client EXCEPT !.last[view] = Some(filter),
                   !.shown[view] = Some(Rendered(client.data, filter))]

coStudentFilter(studentId, courseId) ==
    /\ client' = Submitted("co-student", <<studentId, courseId>>)
    /\ UNCHANGED <<data, report, ops, pending, file, response, server>>

coSemesterFilter(courseId, semesterId) ==
    /\ client' = Submitted("co-semester", <<courseId, semesterId>>)
    /\ UNCHANGED <<data, report, ops, pending, file, response, server>>

poStudentFilter(studentId) ==
    /\ client' = Submitted("po-student", <<studentId>>)
    /\ UNCHANGED <<data, report, ops, pending, file, response, server>>

poSemesterFilter(programId, semesterId) ==
    /\ client' = Submitted("po-semester", <<programId, semesterId>>)
    /\ UNCHANGED <<data, report, ops, pending, file, response, server>>

poCoFilter(programId) ==
    /\ client' = Submitted("po-co", <<programId>>)
    /\ UNCHANGED <<data, report, ops, pending, file, response, server>>

(* The mark form is submitted with its fields filled in: POST /api/marks is *)
(* sent.                                                                    *)
markFormSubmit(n, enrolmentId, assessmentId, marks) ==
    /\ client.uploads[n] = Idle
    /\ \A k \in 1..(n - 1) : client.uploads[k] # Idle
    /\ client' = [client EXCEPT !.uploads[n] =
            [stage |-> "posting", enrolmentId |-> enrolmentId,
             assessmentId |-> assessmentId, marks |-> marks]]
    /\ UNCHANGED <<data, report, ops, pending, file, response, server>>

(* The server handles the POST.  A rejection ends the handler in its catch; *)
(* after a success the handler asks for GET /api/data.  applied is the      *)
(* number of changes the store has seen once the mark is in it.             *)
postMarks(n) ==
    /\ client.uploads[n].stage = "posting"
    /\ IF upsertMarkError(data, client.uploads[n].enrolmentId,
                          client.uploads[n].assessmentId, client.uploads[n].marks) # NoError
       THEN /\ client' = [client EXCEPT !.uploads[n].stage = "failed"]
            /\ UNCHANGED <<data, ops, file>>
       ELSE /\ data' = upsertMarkData(data, client.uploads[n].enrolmentId,
                                      client.uploads[n].assessmentId, client.uploads[n].marks)
            /\ ops' = ops + 1
            /\ file' = stringify(data')
            /\ client' = [client EXCEPT !.uploads[n] =
                    [stage |-> "reloading", enrolmentId |-> @.enrolmentId,
                     assessmentId |-> @.assessmentId, marks |-> @.marks,
                     applied |-> ops']]
    /\ UNCHANGED <<report, pending, response, server>>

(* The server answers GET /api/data with the store as it is then. *)
getData(n) ==
    /\ client.uploads[n].stage = "reloading"
    /\ client' = [client EXCEPT !.uploads[n] =
            [stage |-> "loaded", enrolmentId |-> @.enrolmentId,
             assessmentId |-> @.assessmentId, marks |-> @.marks,
             applied |-> @.applied, payload |-> data, asOf |-> ops]]
    /\ UNCHANGED <<data, report, ops, pending, file, response, server>>

(* The answer arrives: reloadDataFromServer replaces the page's copy, and   *)
(* the handler renders the reports again before it returns.                 *)
reloadReturns(n) ==
    /\ client.uploads[n].stage = "loaded"
    /\ client' = [client EXCEPT
            !.data = client.uploads[n].payload,
            !.asOf = client.uploads[n].asOf,
            !.shown = regenerateReports(client.uploads[n].payload, client.last, client.shown),
            !.uploads[n] = [stage |-> "done", enrolmentId |-> @.enrolmentId,
                            assessmentId |-> @.assessmentId, marks |-> @.marks,
                            applied |-> @.applied]]
    /\ UNCHANGED <<data, report, ops, pending, file, response, server>>

UploadMarksInputs == {119, 120}

PageNext ==
    \/ coStudentFilter(1, 1)
    \/ coSemesterFilter(1, 1)
    \/ poStudentFilter(1)
    \/ poSemesterFilter(1, 1)
    \/ \E programId \in {0, 1} : poCoFilter(programId)
    \/ \E n \in 1..MaxUploads, assessmentId \in {2, 9}, marks \in UploadMarksInputs :
            markFormSubmit(n, 1, assessmentId, marks)
    \/ \E n \in 1..MaxUploads : postMarks(n)
    \/ \E n \in 1..MaxUploads : getData(n)
    \/ \E n \in 1..MaxUploads : reloadReturns(n)

(* A step of a submit handler that is waiting for the server or for the     *)
(* event loop.                                                              *)
HandlerStep == \E n \in 1..MaxUploads : postMarks(n) \/ getData(n) \/ reloadReturns(n)

(* The server answers the requests it has received, and the event loop runs *)
(* the continuations that are ready: a handler step that stays possible is  *)
(* taken.                                                                   *)
PageSpec == PageInit /\ [][PageNext]_vars /\ WF_vars(HandlerStep)

(***************************************************************************)
(* Properties.  The sums below are taken over index sets in whole numbers   *)
(* (weights as percentages), not by the running totals of the code.         *)
(***************************************************************************)
Range(s) == {s[i] : i \in DOMAIN s}

RECURSIVE SumFn(_, _)
SumFn(f, S) ==
    IF S = {} THEN 0
    ELSE SumFn(f, S \ {CHOOSE x \in S : TRUE}) + f[CHOOSE x \in S : TRUE]

RECURSIVE RSumFn(_, _)
RSumFn(f, S) ==
    IF S = {} THEN RInt(0)
    ELSE RAdd(RSumFn(f, S \ {CHOOSE x \in S : TRUE}), f[CHOOSE x \in S : TRUE])

CourseOutcomeIds == {1, 2, 3, 9}

(* The mappings of course outcome c that count for enrolment e: the         *)
(* assessment resolves and belongs to the enrolment's course.               *)
Surviving(d, e, c) ==
    { i \in DOMAIN d.assessmentCoMappings :
        /\ d.assessmentCoMappings[i].courseOutcomeId = c
        /\ \E a \in Range(d.assessments) :
              a.id = d.assessmentCoMappings[i].assessmentId /\ a.courseId = e.courseId }

AssessmentAt(d, i) ==
    CHOOSE a \in Range(d.assessments) : a.id = d.assessmentCoMappings[i].assessmentId

HasMark(d, e, a) ==
    \E k \in Range(d.marks) : k.enrolmentId = e.id /\ k.assessmentId = a.id

RecordedMark(d, e, a) ==
    IF HasMark(d, e, a)
    THEN (CHOOSE k \in Range(d.marks) : k.enrolmentId = e.id /\ k.assessmentId = a.id).marks
    ELSE 0

Percent(weight) == IF weight > 0 THEN weight ELSE 100

(* 100 * sumMax and 100 * sumScore *)
SumMax100(d, e, c) ==
    SumFn([i \in Surviving(d, e, c) |->
              AssessmentAt(d, i).maxMarks * Percent(d.assessmentCoMappings[i].weight)],
          Surviving(d, e, c))

SumScore100(d, e, c) ==
    SumFn([i \in Surviving(d, e, c) |->
              RecordedMark(d, e, AssessmentAt(d, i)) * Percent(d.assessmentCoMappings[i].weight)],
          Surviving(d, e, c))

AllMarksAboveMax(d, e, c) ==
    /\ Surviving(d, e, c) # {}
    /\ \A i \in Surviving(d, e, c) :
          /\ AssessmentAt(d, i).maxMarks > 0
          /\ RecordedMark(d, e, AssessmentAt(d, i)) > AssessmentAt(d, i).maxMarks

CoValueIs(d, e, c, result) ==
    /\ ~IsNull(result) =>
          result[1].n * SumMax100(d, e, c) = 100 * SumScore100(d, e, c) * result[1].d
    /\ AllMarksAboveMax(d, e, c) =>
          ~IsNull(result) /\ result[1].n > 100 * result[1].d

(* C1: a course outcome attainment that is not NoData is                    *)
(* 100 * sumScore / sumMax over exactly the mappings of the outcome whose   *)
(* assessment resolves and belongs to the enrolment's course, each counting *)
(* maxMarks * m and (the recorded mark, or 0) * m with m = weight / 100 for *)
(* a weight > 0 and 1 otherwise; it is not clamped: it is above 100 when    *)
(* every counted mark is above its maximum.                                 *)
C1_CoAttainmentFormula ==
    \A e \in Range(data.enrolments), c \in CourseOutcomeIds :
        CoValueIs(data, e, c, calculateCourseOutcomeAchievement(data, e, c))

(* Two mappings of weight 50, a mark of 40 out of 50 on one assessment and  *)
(* none on the other: 40.00% in the per-student report.                     *)
C1_Witness ==
    /\ Len(data.enrolments) = 1
    /\ Surviving(data, data.enrolments[1], 1) = {1, 2}
    /\ \A i \in {1, 2} : data.assessmentCoMappings[i].weight = 50
    /\ HasMark(data, data.enrolments[1], AssessmentAt(data, 1))
    /\ ~HasMark(data, data.enrolments[1], AssessmentAt(data, 2))
    /\ calculateCourseOutcomeAchievement(data, data.enrolments[1], 1) = Some(RInt(40))
    /\ report.view = "co-student"
    /\ report.filter = <<1, 1>>
    /\ report.rows[1].achievement = Some([neg |-> FALSE, cents |-> 4000])
StudentIds == {1, 2, 3}

ProgramOutcomeIds == {1, 2}

(* 0 stands for "no semester filter" *)
SemesterFilters == {0, 1, 2}

StudentEnrolments(d, s, sem) ==
    { i \in DOMAIN d.enrolments :
        d.enrolments[i].studentId = s /\ (sem = 0 \/ d.enrolments[i].semesterId = sem) }

PoMappings(d, p) ==
    { j \in DOMAIN d.coPoMappings : d.coPoMappings[j].programOutcomeId = p }

CoResolves(d, j) ==
    \E co \in Range(d.courseOutcomes) : co.id = d.coPoMappings[j].courseOutcomeId

CoAt(d, j) ==
    CHOOSE co \in Range(d.courseOutcomes) : co.id = d.coPoMappings[j].courseOutcomeId

(* The student's matching enrolments in the course of mapping j's outcome   *)
(* whose attainment of that outcome is not NoData.                          *)
Valued(d, s, sem, j) ==
    { i \in StudentEnrolments(d, s, sem) :
        /\ d.enrolments[i].courseId = CoAt(d, j).courseId
        /\ ~IsNull(calculateCourseOutcomeAchievement(
                      d, d.enrolments[i], d.coPoMappings[j].courseOutcomeId)) }

Contributing(d, s, p, sem) ==
    { j \in PoMappings(d, p) : CoResolves(d, j) /\ Valued(d, s, sem, j) # {} }

MeanCo(d, s, sem, j) ==
    RDiv(RSumFn([i \in Valued(d, s, sem, j) |->
                    calculateCourseOutcomeAchievement(
                        d, d.enrolments[i], d.coPoMappings[j].courseOutcomeId)[1]],
                Valued(d, s, sem, j)),
         RInt(Cardinality(Valued(d, s, sem, j))))

TotalWeight(d, s, p, sem) ==
    SumFn([j \in Contributing(d, s, p, sem) |-> Percent(d.coPoMappings[j].weight)],
          Contributing(d, s, p, sem))

WeightedMean(d, s, p, sem) ==
    RDiv(RSumFn([j \in Contributing(d, s, p, sem) |->
                    RMul(MeanCo(d, s, sem, j), RInt(Percent(d.coPoMappings[j].weight)))],
                Contributing(d, s, p, sem)),
         RInt(TotalWeight(d, s, p, sem)))

PoValueIs(d, s, p, sem, result) ==
    /\ (\/ StudentEnrolments(d, s, sem) = {}
        \/ PoMappings(d, p) = {}
        \/ TotalWeight(d, s, p, sem) = 0) => IsNull(result)
    /\ ~IsNull(result) => result = Some(WeightedMean(d, s, p, sem))

(* C2: a program outcome attainment for a student is                        *)
(* sum(meanCo * w) / sum(w) over the mappings of the outcome that           *)
(* contribute (the course outcome resolves and the student has at least one *)
(* non-NoData attainment of it among the matching enrolments in its         *)
(* course), meanCo being the mean of those attainments and w the weight if  *)
(* > 0 and 100 otherwise; it is NoData when the student has no matching     *)
(* enrolment, the outcome has no mapping, or the total weight is 0.         *)
C2_PoAttainmentFormula ==
    \A s \in StudentIds, p \in ProgramOutcomeIds, sem \in SemesterFilters :
        PoValueIs(data, s, p, sem,
                  calculateProgramOutcomeAchievementForStudent(data, s, p, sem))

(* Two contributing mappings of different weights and different means, one  *)
(* of them averaging two enrolments; the report shows the value.            *)
C2_Witness ==
    /\ \E j \in Contributing(data, 1, 1, 0), k \in Contributing(data, 1, 1, 0) :
          /\ Percent(data.coPoMappings[j].weight) # Percent(data.coPoMappings[k].weight)
          /\ MeanCo(data, 1, 0, j) # MeanCo(data, 1, 0, k)
          /\ Cardinality(Valued(data, 1, 0, j)) = 2
    /\ ~IsNull(calculateProgramOutcomeAchievementForStudent(data, 1, 1, 0))
    /\ report.view = "po-student"
    /\ report.filter = <<1>>
    /\ ~IsNull(report.rows[1].achievement)

NoMappings(d, c) ==
    \A i \in DOMAIN d.assessmentCoMappings : d.assessmentCoMappings[i].courseOutcomeId # c

(* C3: a course outcome attainment is NoData exactly when the outcome has   *)
(* no mapping at all or sumMax is 0 (every mapping filtered out, or the     *)
(* counted maxima adding up to 0).                                          *)
C3_CoNoDataIff ==
    \A e \in Range(data.enrolments), c \in CourseOutcomeIds :
        IsNull(calculateCourseOutcomeAchievement(data, e, c))
            <=> (NoMappings(data, c) \/ SumMax100(data, e, c) = 0)

(* CO1 has a mapping, but only to an assessment of another course, and CO2  *)
(* has none: both rows of the per-student report are NoData.                *)
C3_Witness ==
    /\ Len(data.enrolments) = 1
    /\ ~NoMappings(data, 1)
    /\ Surviving(data, data.enrolments[1], 1) = {}
    /\ NoMappings(data, 2)
    /\ report.view = "co-student"
    /\ report.filter = <<1, 1>>
    /\ IsNull(report.rows[1].achievement)
    /\ IsNull(report.rows[2].achievement)
NoMarks(d, e) == \A k \in Range(d.marks) : k.enrolmentId # e.id

CourseOutcomesOf(d, courseId) ==
    { co \in Range(d.courseOutcomes) : co.courseId = courseId }

(* C4: for every enrolment without marks and every course outcome that has  *)
(* a mapping, the attainment is the number 0 and not NoData.  Stated here   *)
(* for the outcomes of the enrolment's own course and mappings that count   *)
(* for the enrolment, which is the least the claim says.                    *)
C4_NoMarksGivesZero ==
    \A e \in Range(data.enrolments) :
        NoMarks(data, e) =>
            \A co \in CourseOutcomesOf(data, e.courseId) :
                Surviving(data, e, co.id) # {}
                    => calculateCourseOutcomeAchievement(data, e, co.id) = Some(RInt(0))

NoDataTexts ==
    {"No assessment mapping", "No marks uploaded",
     "No contributing CO attainment", "No contributing data"}

StatusTexts == {"Achieved", "Needs Attention"}

ZeroPercent == [neg |-> FALSE, cents |-> 0]

IsZero(option) == option = Some(RInt(0))

(* What a row must show for the results it stands for (one result in the    *)
(* per-student views, one per group member in the per-semester views).      *)
RowShows(row, results) ==
    /\ (\A i \in DOMAIN results : IsNull(results[i]))
          => IsNull(row.achievement) /\ row.status \in NoDataTexts
    /\ (\E i \in DOMAIN results : ~IsNull(results[i]))
          => ~IsNull(row.achievement) /\ row.status \in StatusTexts
    /\ ((\E i \in DOMAIN results : IsZero(results[i]))
            /\ (\A i \in DOMAIN results : IsNull(results[i]) \/ IsZero(results[i])))
          => row.achievement = Some(ZeroPercent) /\ row.status = "Needs Attention"
    /\ (Len(results) = 2 /\ IsZero(results[1]) /\ ~IsNull(results[2]))
          => row.achievement = Some(formatPercentage(RDiv(results[2][1], RInt(2))))

CourseOutcomeOfRow(d, row) == CHOOSE co \in Range(d.courseOutcomes) : co.code = row.code

ProgramOutcomeOfRow(d, row) == CHOOSE po \in Range(d.programOutcomes) : po.code = row.code

CourseGroup(d, c, sem) ==
    SelectSeq(d.enrolments, LAMBDA e : e.courseId = c /\ e.semesterId = sem)

ProgramStudents(d, p) == SelectSeq(d.students, LAMBDA s : s.programId = p)

CoStudentRowsShow(d, enrolment, rows) ==
    \A r \in DOMAIN rows :
        RowShows(rows[r],
            <<calculateCourseOutcomeAchievement(
                  d, enrolment[1], CourseOutcomeOfRow(d, rows[r]).id)>>)

CoSemesterRowsShow(d, group, rows) ==
    \A r \in DOMAIN rows :
        RowShows(rows[r],
            [i \in DOMAIN group |->
                calculateCourseOutcomeAchievement(
                    d, group[i], CourseOutcomeOfRow(d, rows[r]).id)])

PoStudentRowsShow(d, s, rows) ==
    \A r \in DOMAIN rows :
        RowShows(rows[r],
            <<calculateProgramOutcomeAchievementForStudent(
                  d, s, ProgramOutcomeOfRow(d, rows[r]).id, 0)>>)

PoSemesterRowsShow(d, sem, students, rows) ==
    \A r \in DOMAIN rows :
        RowShows(rows[r],
            [i \in DOMAIN students |->
                calculateProgramOutcomeAchievementForStudent(
                    d, students[i].id, ProgramOutcomeOfRow(d, rows[r]).id, sem)])

(* C5: in the four report views a NoData result is a row with a dash and a  *)
(* no-data message, never a percentage or an Achieved / Needs Attention     *)
(* status; a computed 0 is the percentage 0.00% with status Needs           *)
(* Attention, and in a mean it counts as a member (a 0 and a value v give   *)
(* v / 2, zeros alone give 0.00%).                                          *)
C5_NoDataDistinctFromZero ==
    /\ \A s \in StudentIds, c \in CourseInputs :
          CoStudentRowsShow(data, findLatestEnrolment(data, s, c),
                            renderCoAchievementForStudent(data, s, c).rows)
    /\ \A c \in CourseInputs, sem \in SemesterInputs :
          CoSemesterRowsShow(data, CourseGroup(data, c, sem),
                             renderCoAchievementForSemester(data, c, sem).rows)
    /\ \A s \in StudentIds :
          PoStudentRowsShow(data, s, renderPoAchievementForStudent(data, s).rows)
    /\ \A p \in {1, 2}, sem \in SemesterInputs :
          PoSemesterRowsShow(data, sem, ProgramStudents(data, p),
                             renderPoAchievementForSemester(data, p, sem).rows)

(* The per-student report of an enrolment without marks: CO1, which has a   *)
(* mapping, shows 0.00% Needs Attention and CO2, which has none, the dash.  *)
C5_Witness ==
    /\ report.view = "co-student"
    /\ Len(report.rows) = 2
    /\ report.rows[1].achievement = Some(ZeroPercent)
    /\ report.rows[1].status = "Needs Attention"
    /\ IsNull(report.rows[2].achievement)
    /\ report.rows[2].status = "No assessment mapping"
    /\ IsZero(calculateCourseOutcomeAchievement(data, data.enrolments[1], 1))
    /\ IsNull(calculateCourseOutcomeAchievement(data, data.enrolments[1], 2))
(* A row for the mean of the non-NoData members of a family of results      *)
(* indexed by the set S.                                                     *)
MeanOf(results, S) ==
    RDiv(RSumFn([i \in S |-> results[i][1]], S), RInt(Cardinality(S)))

RowIsMeanOver(row, results, S) ==
    IF S = {}
    THEN IsNull(row.achievement)
    ELSE /\ row.achievement = Some(formatPercentage(MeanOf(results, S)))
         /\ row.status = AttainmentStatus(MeanOf(results, S))

CourseGroupSet(d, c, sem) ==
    { i \in DOMAIN d.enrolments :
        d.enrolments[i].courseId = c /\ d.enrolments[i].semesterId = sem }

CoSemesterRowsAreMeans(d, c, sem, rows) ==
    /\ CourseGroupSet(d, c, sem) = {} => rows = <<>>
    /\ CourseGroupSet(d, c, sem) # {} =>
          /\ Len(rows) = Cardinality(CourseOutcomesOf(d, c))
          /\ \A r \in DOMAIN rows :
                /\ CourseOutcomeOfRow(d, rows[r]).courseId = c
                /\ RowIsMeanOver(rows[r],
                      [i \in CourseGroupSet(d, c, sem) |->
                          calculateCourseOutcomeAchievement(
                              d, d.enrolments[i], CourseOutcomeOfRow(d, rows[r]).id)],
                      { i \in CourseGroupSet(d, c, sem) :
                          ~IsNull(calculateCourseOutcomeAchievement(
                              d, d.enrolments[i], CourseOutcomeOfRow(d, rows[r]).id)) })

(* C6: the per-semester report of a course shows, for each outcome of the   *)
(* course, the arithmetic mean of the attainments of all enrolments with    *)
(* the selected course and semester that are not NoData (a 0 is a member);  *)
(* the row is NoData when every enrolment yields NoData.                    *)
C6_CoSemesterMean ==
    \A c \in CourseInputs, sem \in SemesterInputs :
        CoSemesterRowsAreMeans(data, c, sem, renderCoAchievementForSemester(data, c, sem).rows)

(* Two enrolments in the same course and semester: CO1 is 80% and 60%, the  *)
(* row shows 70.00%; CO2 is 20% and 0%, the row shows 10.00%.               *)
C6_Witness ==
    /\ CourseGroupSet(data, 1, 1) = {1, 2}
    /\ calculateCourseOutcomeAchievement(data, data.enrolments[1], 1) = Some(RInt(80))
    /\ calculateCourseOutcomeAchievement(data, data.enrolments[2], 1) = Some(RInt(60))
    /\ calculateCourseOutcomeAchievement(data, data.enrolments[1], 2) = Some(RInt(20))
    /\ calculateCourseOutcomeAchievement(data, data.enrolments[2], 2) = Some(RInt(0))
    /\ report.view = "co-semester"
    /\ report.filter = <<1, 1>>
    /\ report.rows[1].achievement = Some([neg |-> FALSE, cents |-> 7000])
    /\ report.rows[2].achievement = Some([neg |-> FALSE, cents |-> 1000])

ProgramOutcomesOf(d, p) == { po \in Range(d.programOutcomes) : po.programId = p }

ProgramStudentSet(d, p) == { i \in DOMAIN d.students : d.students[i].programId = p }

PoSemesterRowsAreMeans(d, p, sem, rows) ==
    /\ Len(rows) = Cardinality(ProgramOutcomesOf(d, p))
    /\ \A r \in DOMAIN rows :
          /\ ProgramOutcomeOfRow(d, rows[r]).programId = p
          /\ RowIsMeanOver(rows[r],
                [i \in ProgramStudentSet(d, p) |->
                    calculateProgramOutcomeAchievementForStudent(
                        d, d.students[i].id, ProgramOutcomeOfRow(d, rows[r]).id, sem)],
                { i \in ProgramStudentSet(d, p) :
                    ~IsNull(calculateProgramOutcomeAchievementForStudent(
                        d, d.students[i].id, ProgramOutcomeOfRow(d, rows[r]).id, sem)) })

(* C7: the per-semester report of a program shows, for each outcome of the  *)
(* program, the arithmetic mean over the students of that program of their  *)
(* attainment restricted to the selected semester, students with NoData     *)
(* left out (not counted as 0); the row is NoData when no student has a     *)
(* value.                                                                   *)
C7_PoSemesterMean ==
    \A p \in {1, 2}, sem \in SemesterInputs :
        PoSemesterRowsAreMeans(data, p, sem, renderPoAchievementForSemester(data, p, sem).rows)

(* Program 1 has students 1 and 2; student 2 has no enrolment (NoData) and  *)
(* student 3, of the other program, has a value of their own: the row shows   *)
(* the value of student 1.                                                  *)
C7_Witness ==
    /\ ~IsNull(calculateProgramOutcomeAchievementForStudent(data, 1, 1, 1))
    /\ IsNull(calculateProgramOutcomeAchievementForStudent(data, 2, 1, 1))
    /\ ~IsNull(calculateProgramOutcomeAchievementForStudent(data, 3, 1, 1))
    /\ calculateProgramOutcomeAchievementForStudent(data, 3, 1, 1)
          # calculateProgramOutcomeAchievementForStudent(data, 1, 1, 1)
    /\ report.view = "po-semester"
    /\ report.filter = <<1, 1>>
    /\ report.rows[1].achievement
          = Some(formatPercentage(calculateProgramOutcomeAchievementForStudent(data, 1, 1, 1)[1]))
Matching(d, s, c) ==
    { i \in DOMAIN d.enrolments :
        d.enrolments[i].studentId = s /\ d.enrolments[i].courseId = c }

LastOf(S) == CHOOSE i \in S : \A j \in S : j <= i

(* The matching enrolment that is last in the listing order. *)
LastInserted(d, s, c) == d.enrolments[LastOf(Matching(d, s, c))]

CoStudentRowsFrom(d, rows, enrolment) ==
    \A r \in DOMAIN rows :
        rows[r] = AttainmentRow(
                      CourseOutcomeOfRow(d, rows[r]),
                      calculateCourseOutcomeAchievement(
                          d, enrolment, CourseOutcomeOfRow(d, rows[r]).id),
                      "No assessment mapping")

SelectsLastInserted(d, s, c) ==
    IF Matching(d, s, c) = {}
    THEN /\ IsNull(findLatestEnrolment(d, s, c))
         /\ renderCoAchievementForStudent(d, s, c).rows = <<>>
    ELSE /\ findLatestEnrolment(d, s, c) = Some(LastInserted(d, s, c))
         /\ Len(renderCoAchievementForStudent(d, s, c).rows)
               = Cardinality(CourseOutcomesOf(d, c))
         /\ CoStudentRowsFrom(d, renderCoAchievementForStudent(d, s, c).rows,
                              LastInserted(d, s, c))

NewEnrolment == data'.enrolments[Len(data'.enrolments)]

(* An addEnrolment step: the added enrolment is the one selected for its    *)
(* pair, and the selection for every other pair stays.                      *)
EnrolmentAddedIsSelected ==
    data'.enrolments # data.enrolments =>
        /\ data'.enrolments = Append(data.enrolments, NewEnrolment)
        /\ findLatestEnrolment(data', NewEnrolment.studentId, NewEnrolment.courseId)
              = Some(NewEnrolment)
        /\ \A s \in StudentIds, c \in CourseInputs :
              <<s, c>> # <<NewEnrolment.studentId, NewEnrolment.courseId>>
                  => findLatestEnrolment(data', s, c) = findLatestEnrolment(data, s, c)

(* C8: of several enrolments of one (student, course) pair the per-student  *)
(* report computes every row from exactly one, the last in the listing      *)
(* order, whatever its semester or year; after each addEnrolment the        *)
(* enrolment just inserted is the one selected for its pair.                *)
C8_LatestEnrolmentSelected ==
    /\ [](\A s \in StudentIds, c \in CourseInputs : SelectsLastInserted(data, s, c))
    /\ [][EnrolmentAddedIsSelected]_vars

(* Student 1 is enrolled in course 1 a second time, in semester 2, by       *)
(* addEnrolment; the first enrolment gives 80% for CO1, the new one has no  *)
(* marks, and the report shows 0.00%.                                       *)
C8_Witness ==
    /\ ops = 1
    /\ Len(data.marks) = 1
    /\ Matching(data, 1, 1) = {1, 2}
    /\ data.enrolments[1].semesterId = 1
    /\ data.enrolments[2].semesterId = 2
    /\ calculateCourseOutcomeAchievement(data, data.enrolments[1], 1) = Some(RInt(80))
    /\ calculateCourseOutcomeAchievement(data, data.enrolments[2], 1) = Some(RInt(0))
    /\ report.view = "co-student"
    /\ report.filter = <<1, 1>>
    /\ report.rows[1].achievement = Some(ZeroPercent)

NewCoPoMapping == data'.coPoMappings[Len(data'.coPoMappings)]

(* The student's matching enrolments in the course of the outcome, and      *)
(* those among them with an attainment of the outcome.                      *)
EnrolledFor(d, s, sem, co) ==
    { i \in StudentEnrolments(d, s, sem) :
        \E o \in Range(d.courseOutcomes) :
            o.id = co /\ o.courseId = d.enrolments[i].courseId }

AttainedFor(d, s, sem, co) ==
    { i \in EnrolledFor(d, s, sem, co) :
        ~IsNull(calculateCourseOutcomeAchievement(d, d.enrolments[i], co)) }

CoPoMappingAddedKeeps ==
    data'.coPoMappings # data.coPoMappings =>
        /\ data'.coPoMappings = Append(data.coPoMappings, NewCoPoMapping)
        /\ \A s \in StudentIds, sem \in SemesterFilters :
              AttainedFor(data', s, sem, NewCoPoMapping.courseOutcomeId) = {}
                  => calculateProgramOutcomeAchievementForStudent(
                          data', s, NewCoPoMapping.programOutcomeId, sem)
                       = calculateProgramOutcomeAchievementForStudent(
                          data, s, NewCoPoMapping.programOutcomeId, sem)

(* C9: adding a CO->PO mapping leaves a student's attainment of the program *)
(* outcome as it was when the student has no enrolment in the course of the *)
(* mapping's outcome or every such enrolment yields NoData: the mapping     *)
(* adds nothing to weightedSum and nothing to totalWeight.                  *)
C9_SkippedMappingChangesNothing == [][CoPoMappingAddedKeeps]_vars

(* CO2 -> PO1 has been added; student 1 is enrolled in the course of CO2    *)
(* but CO2 is NoData, and PO1 still shows the value of CO1, 80.00%.         *)
C9_Witness ==
    /\ ops = 1
    /\ Len(data.coPoMappings) = 2
    /\ data.coPoMappings[2].courseOutcomeId = 2
    /\ data.coPoMappings[2].programOutcomeId = 1
    /\ EnrolledFor(data, 1, 0, 2) # {}
    /\ AttainedFor(data, 1, 0, 2) = {}
    /\ calculateProgramOutcomeAchievementForStudent(data, 1, 1, 0) = Some(RInt(80))
    /\ report.view = "po-student"
    /\ report.filter = <<1>>
    /\ report.rows[1].achievement = Some([neg |-> FALSE, cents |-> 8000])

SameAttainments(d, e) ==
    /\ \A enrolment \in Range(d.enrolments), c \in CourseOutcomeIds :
          calculateCourseOutcomeAchievement(d, enrolment, c)
              = calculateCourseOutcomeAchievement(e, enrolment, c)
    /\ \A s \in StudentIds, p \in ProgramOutcomeIds, sem \in SemesterFilters :
          calculateProgramOutcomeAchievementForStudent(d, s, p, sem)
              = calculateProgramOutcomeAchievementForStudent(e, s, p, sem)

OtherWeights == {-5, 100}

DefaultWeight(weight) == IF weight > 0 THEN weight ELSE 100

AllDefaulted(d) ==
    [d EXCEPT
        !.assessmentCoMappings =
            [i \in DOMAIN @ |-> [@[i] EXCEPT !.weight = DefaultWeight(@)]],
        !.coPoMappings =
            [i \in DOMAIN @ |-> [@[i] EXCEPT !.weight = DefaultWeight(@)]]]

(* C10: a weight of 0 or below behaves as 100: giving any assessment->CO or *)
(* CO->PO mapping of weight <= 0 the weight 100 (or a negative weight)      *)
(* leaves every course outcome and program outcome attainment as it was,    *)
(* and so does giving all of them the weight 100 at once.                   *)
C10_ZeroWeightIsFullWeight ==
    /\ \A i \in DOMAIN data.assessmentCoMappings, w \in OtherWeights :
          data.assessmentCoMappings[i].weight <= 0
              => SameAttainments(data,
                    [data EXCEPT !.assessmentCoMappings[i].weight = w])
    /\ \A j \in DOMAIN data.coPoMappings, w \in OtherWeights :
          data.coPoMappings[j].weight <= 0
              => SameAttainments(data, [data EXCEPT !.coPoMappings[j].weight = w])
    /\ SameAttainments(data, AllDefaulted(data))

(* Weight 0 at both levels: PO1 has contributing mappings of weight 0 and   *)
(* of weight 100 whose means differ, and the mapping that counts for CO2    *)
(* has weight 0; the per-student report shows the value.                    *)
C10_Witness ==
    /\ \E j \in Contributing(data, 1, 1, 0), k \in Contributing(data, 1, 1, 0) :
          /\ data.coPoMappings[j].weight = 0
          /\ data.coPoMappings[k].weight = 100
          /\ MeanCo(data, 1, 0, j) # MeanCo(data, 1, 0, k)
    /\ \E i \in Surviving(data, data.enrolments[1], 2) :
          data.assessmentCoMappings[i].weight = 0
    /\ report.view = "po-student"
    /\ report.filter = <<1>>
    /\ ~IsNull(report.rows[1].achievement)
(* The status a row must carry for the value v it displays. *)
StatusFor(row, v) ==
    /\ row.status = "Achieved" <=> v.n >= 60 * v.d
    /\ row.status = "Needs Attention" <=> v.n < 60 * v.d

RowThresholdOver(row, results, S) == S # {} => StatusFor(row, MeanOf(results, S))

(* results: what the row stands for, one result per group member *)
RowThreshold(row, results) ==
    RowThresholdOver(row, results, {i \in DOMAIN results : ~IsNull(results[i])})

CoStudentThreshold(d, enrolment, rows) ==
    \A r \in DOMAIN rows :
        RowThreshold(rows[r],
            <<calculateCourseOutcomeAchievement(
                  d, enrolment[1], CourseOutcomeOfRow(d, rows[r]).id)>>)

CoSemesterThreshold(d, group, rows) ==
    \A r \in DOMAIN rows :
        RowThreshold(rows[r],
            [i \in DOMAIN group |->
                calculateCourseOutcomeAchievement(
                    d, group[i], CourseOutcomeOfRow(d, rows[r]).id)])

PoStudentThreshold(d, s, rows) ==
    \A r \in DOMAIN rows :
        RowThreshold(rows[r],
            <<calculateProgramOutcomeAchievementForStudent(
                  d, s, ProgramOutcomeOfRow(d, rows[r]).id, 0)>>)

PoSemesterThreshold(d, sem, students, rows) ==
    \A r \in DOMAIN rows :
        RowThreshold(rows[r],
            [i \in DOMAIN students |->
                calculateProgramOutcomeAchievementForStudent(
                    d, students[i].id, ProgramOutcomeOfRow(d, rows[r]).id, sem)])

(* C11: in each of the four report views a value that is not NoData has     *)
(* status Achieved exactly when it is >= 60 and Needs Attention otherwise;  *)
(* 60 itself is Achieved and 59.99 is Needs Attention.                      *)
C11_StatusThreshold ==
    /\ AttainmentStatus(RInt(60)) = "Achieved"
    /\ AttainmentStatus(Norm(5999, 100)) = "Needs Attention"
    /\ \A s \in StudentIds, c \in CourseInputs :
          CoStudentThreshold(data, findLatestEnrolment(data, s, c),
                             renderCoAchievementForStudent(data, s, c).rows)
    /\ \A c \in CourseInputs, sem \in SemesterInputs :
          CoSemesterThreshold(data, CourseGroup(data, c, sem),
                              renderCoAchievementForSemester(data, c, sem).rows)
    /\ \A s \in StudentIds :
          PoStudentThreshold(data, s, renderPoAchievementForStudent(data, s).rows)
    /\ \A p \in {1, 2}, sem \in SemesterInputs :
          PoSemesterThreshold(data, sem, ProgramStudents(data, p),
                              renderPoAchievementForSemester(data, p, sem).rows)

(* Student 2 has 30 out of 50 on the only assessment of CO1: exactly 60%,   *)
(* shown as 60.00% Achieved, beside CO2 at 0%, Needs Attention.             *)
C11_Witness ==
    /\ report.view = "co-student"
    /\ report.filter = <<2, 1>>
    /\ ~IsNull(findLatestEnrolment(data, 2, 1))
    /\ calculateCourseOutcomeAchievement(data, findLatestEnrolment(data, 2, 1)[1], 1)
          = Some(RInt(60))
    /\ report.rows[1].achievement = Some([neg |-> FALSE, cents |-> 6000])
    /\ report.rows[1].status = "Achieved"
    /\ report.rows[2].achievement = Some(ZeroPercent)
    /\ report.rows[2].status = "Needs Attention"
AssessmentResolves(d, mapping) ==
    \E a \in Range(d.assessments) : a.id = mapping.assessmentId

CourseOutcomeResolves(d, mapping) ==
    \E co \in Range(d.courseOutcomes) : co.id = mapping.courseOutcomeId

(* The snapshot without the mappings that point at a missing assessment,    *)
(* and without those that point at a missing course outcome.                *)
WithoutDanglingAco(d) ==
    [d EXCEPT !.assessmentCoMappings =
        SelectSeq(@, LAMBDA mapping : AssessmentResolves(d, mapping))]

WithoutDanglingCoPo(d) ==
    [d EXCEPT !.coPoMappings =
        SelectSeq(@, LAMBDA mapping : CourseOutcomeResolves(d, mapping))]

(* A number or NoData *)
IsResult(r) ==
    \/ r = Null
    \/ Len(r) = 1 /\ r[1].n \in Int /\ r[1].d \in Nat \ {0}

MissingProgramOutcomeIds == {9}

(* C12: on a snapshot with dangling references every computation still      *)
(* returns a number or NoData; a mapping whose assessment does not resolve  *)
(* and a mapping whose course outcome does not resolve contribute nothing   *)
(* (the results are those of the snapshot without them), and a program      *)
(* outcome id that does not resolve gives NoData.                           *)
C12_DanglingReferencesSkipped ==
    /\ \A e \in Range(data.enrolments), c \in CourseOutcomeIds :
          /\ IsResult(calculateCourseOutcomeAchievement(data, e, c))
          /\ calculateCourseOutcomeAchievement(data, e, c)
                = calculateCourseOutcomeAchievement(WithoutDanglingAco(data), e, c)
    /\ \A s \in StudentIds, p \in ProgramOutcomeIds, sem \in SemesterFilters :
          /\ IsResult(calculateProgramOutcomeAchievementForStudent(data, s, p, sem))
          /\ calculateProgramOutcomeAchievementForStudent(data, s, p, sem)
                = calculateProgramOutcomeAchievementForStudent(
                      WithoutDanglingCoPo(WithoutDanglingAco(data)), s, p, sem)
    /\ \A s \in StudentIds, p \in MissingProgramOutcomeIds, sem \in SemesterFilters :
          IsNull(calculateProgramOutcomeAchievementForStudent(data, s, p, sem))

(* CO1 has a mapping to a missing assessment beside a real one, PO1 has a   *)
(* mapping of a missing course outcome beside CO1: both reports of student  *)
(* 1 still show 80.00%.                                                     *)
C12_Witness ==
    /\ \E i \in DOMAIN data.assessmentCoMappings :
          /\ data.assessmentCoMappings[i].courseOutcomeId = 1
          /\ ~AssessmentResolves(data, data.assessmentCoMappings[i])
    /\ \E j \in DOMAIN data.coPoMappings :
          /\ data.coPoMappings[j].programOutcomeId = 1
          /\ ~CourseOutcomeResolves(data, data.coPoMappings[j])
    /\ calculateCourseOutcomeAchievement(data, data.enrolments[1], 1) = Some(RInt(80))
    /\ calculateProgramOutcomeAchievementForStudent(data, 1, 1, 0) = Some(RInt(80))
    /\ report.view = "po-student"
    /\ report.filter = <<1>>
    /\ report.rows[1].achievement = Some([neg |-> FALSE, cents |-> 8000])
(* A step that only renders: one of the four filter forms is submitted. *)
RenderOnly == ops' = ops

(* C13: computing attainments and rendering any of the four reports leaves  *)
(* the record snapshot as it was: every collection holds the same records   *)
(* in the same order after the call.                                        *)
C13_RenderingLeavesSnapshot ==
    [][RenderOnly => \A key \in DOMAIN data : data'[key] = data[key]]_vars

(* The per-semester report of course 1 has been rendered with rows, and the *)
(* snapshot is still the initial one.                                       *)
C13_Witness ==
    /\ ops = 0
    /\ data \in PoSnapshots
    /\ Len(data.enrolments) = 2
    /\ report.view = "co-semester"
    /\ Len(report.rows) = 2
    /\ ~IsNull(report.rows[1].achievement)

PairOf(mark) == <<mark.enrolmentId, mark.assessmentId>>

OneMarkPerPair(marks) ==
    \A i, j \in DOMAIN marks : PairOf(marks[i]) = PairOf(marks[j]) => i = j

HasPair(marks, e, a) == \E i \in DOMAIN marks : PairOf(marks[i]) = <<e, a>>

(* The request the store accepted in this step, as the route will answer it *)
Accepted == pending'[Len(pending')]

(* The step answers a request at once, or accepts one for the collection. *)
RequestFor(collection) ==
    IF ops' = ops THEN Len(pending') = Len(pending)
    ELSE Accepted.collection = collection

(* The pair's record keeps its position and id and takes the value, every   *)
(* other record is as it was; the answer will be 200.                       *)
OverwrittenInPlace(e, a, m) ==
    /\ Len(data'.marks) = Len(data.marks)
    /\ \A i \in DOMAIN data.marks :
          data'.marks[i] = IF PairOf(data.marks[i]) = <<e, a>>
                           THEN [data.marks[i] EXCEPT !.marks = m]
                           ELSE data.marks[i]
    /\ Accepted.status = 200
    /\ \E i \in DOMAIN data.marks :
          PairOf(data.marks[i]) = <<e, a>> /\ Accepted.id = data.marks[i].id

(* One record of the pair is added behind the others; the answer will be 201 *)
AppendedOnce(e, a, m) ==
    /\ Len(data'.marks) = Len(data.marks) + 1
    /\ SubSeq(data'.marks, 1, Len(data.marks)) = data.marks
    /\ PairOf(data'.marks[Len(data'.marks)]) = <<e, a>>
    /\ data'.marks[Len(data'.marks)].marks = m
    /\ Accepted.status = 201
    /\ Accepted.id = data'.marks[Len(data'.marks)].id

UpsertStep(e, a, m) ==
    (RequestFor("marks") /\ PostMarks(e, a, m) /\ upsertMarkError(data, e, a, m) = NoError)
        => IF HasPair(data.marks, e, a) THEN OverwrittenInPlace(e, a, m)
                                         ELSE AppendedOnce(e, a, m)

(* C15: from the empty store, however mark uploads interleave, the marks    *)
(* collection holds at most one record per (enrolmentId, assessmentId); an  *)
(* upload for a pair that has a record overwrites its value in place (same  *)
(* id, same count, answered 200) and an upload for a new pair appends one   *)
(* record (answered 201); the answer sent when the write finishes carries   *)
(* that status.                                                             *)
C15_UpsertKeepsOneMarkPerPair ==
    /\ []OneMarkPerPair(data.marks)
    /\ [][/\ \A m \in MarksInputs : UpsertStep(1, 1, m)
          /\ \A i \in DOMAIN pending :
                (Len(pending') < Len(pending) /\ writeFileCompletes(i))
                    => response'.status = pending[i].status]_vars

(* Two uploads for the same pair are in flight together: the first created  *)
(* the record, the second overwrote its value; one record is held.          *)
C15_Witness ==
    /\ Len(pending) = 2
    /\ pending[1].collection = "marks" /\ pending[1].status = 201
    /\ pending[2].collection = "marks" /\ pending[2].status = 200
    /\ pending[2].id = pending[1].id
    /\ Len(data.marks) = 1
    /\ data.marks[1].marks = 0
    /\ pending[1].content.members.marks.array[1].marks = 60
AcoPair(mapping) == <<mapping.assessmentId, mapping.courseOutcomeId>>

CoPoPair(mapping) == <<mapping.courseOutcomeId, mapping.programOutcomeId>>

UniqueAcoPairs(mappings) ==
    \A i, j \in DOMAIN mappings : AcoPair(mappings[i]) = AcoPair(mappings[j]) => i = j

UniqueCoPoPairs(mappings) ==
    \A i, j \in DOMAIN mappings : CoPoPair(mappings[i]) = CoPoPair(mappings[j]) => i = j

AcoAlreadyMapped == "The assessment and course outcome are already mapped."

CoPoAlreadyMapped == "The CO and PO are already mapped."

(* The request is answered with 409 and its message; the store, the writes  *)
(* in flight and the file are as they were.                                 *)
RejectedAsDuplicate(message) ==
    /\ response' = [status |-> 409, body |-> [error |-> message]]
    /\ UNCHANGED <<data, pending, file>>

(* A request for a pair the store holds is rejected; one for a pair it does *)
(* not hold, with both ends resolving, adds exactly one mapping.            *)
AcoStep(a, c, w) ==
    (RequestFor("assessmentCoMappings") /\ PostAssessmentCoMappings(a, c, w)) =>
        IF \E i \in DOMAIN data.assessmentCoMappings :
              AcoPair(data.assessmentCoMappings[i]) = <<a, c>>
        THEN RejectedAsDuplicate(AcoAlreadyMapped)
        ELSE (Exists(data.assessments, a) /\ Exists(data.courseOutcomes, c))
                => /\ Len(data'.assessmentCoMappings) = Len(data.assessmentCoMappings) + 1
                   /\ Accepted.status = 201

CoPoStep(c, p, w) ==
    (RequestFor("coPoMappings") /\ PostCoPoMappings(c, p, w)) =>
        IF \E i \in DOMAIN data.coPoMappings : CoPoPair(data.coPoMappings[i]) = <<c, p>>
        THEN RejectedAsDuplicate(CoPoAlreadyMapped)
        ELSE (Exists(data.courseOutcomes, c) /\ Exists(data.programOutcomes, p))
                => /\ Len(data'.coPoMappings) = Len(data.coPoMappings) + 1
                   /\ Accepted.status = 201

(* C16: from the empty store, however mapping requests interleave, no two   *)
(* assessment->CO mappings and no two CO->PO mappings share a pair; of the  *)
(* requests for one pair the first is accepted and adds one mapping, every  *)
(* later one is answered 409 and adds nothing, also while the write of the  *)
(* first is still in flight.                                                *)
C16_MappingPairsUnique ==
    /\ [](UniqueAcoPairs(data.assessmentCoMappings) /\ UniqueCoPoPairs(data.coPoMappings))
    /\ [][/\ \A w \in StoredAcoWeightInputs : AcoStep(1, 1, w)
          /\ \A w \in StoredCoPoWeightInputs : CoPoStep(1, 1, w)]_vars

(* The write of the one CO->PO mapping is still in flight and a second      *)
(* request for its pair has just been answered 409.                         *)
C16_Witness ==
    /\ Len(data.coPoMappings) = 1
    /\ \E i \in DOMAIN pending : pending[i].collection = "coPoMappings"
    /\ response = [status |-> 409, body |-> [error |-> CoPoAlreadyMapped]]
(* Every record of the collection names, in the field, a record of target. *)
Resolves(collection, field, target) ==
    \A i \in DOMAIN collection : Exists(target, collection[i][field])

ForeignKeysResolve(d) ==
    /\ Resolves(d.courses, "programId", d.programs)
    /\ Resolves(d.courses, "semesterId", d.semesters)
    /\ Resolves(d.students, "programId", d.programs)
    /\ Resolves(d.enrolments, "studentId", d.students)
    /\ Resolves(d.enrolments, "courseId", d.courses)
    /\ Resolves(d.enrolments, "semesterId", d.semesters)
    /\ Resolves(d.programOutcomes, "programId", d.programs)
    /\ Resolves(d.courseOutcomes, "courseId", d.courses)
    /\ Resolves(d.coPoMappings, "courseOutcomeId", d.courseOutcomes)
    /\ Resolves(d.coPoMappings, "programOutcomeId", d.programOutcomes)
    /\ Resolves(d.assessments, "courseId", d.courses)
    /\ Resolves(d.assessments, "semesterId", d.semesters)
    /\ Resolves(d.assessmentCoMappings, "assessmentId", d.assessments)
    /\ Resolves(d.assessmentCoMappings, "courseOutcomeId", d.courseOutcomes)
    /\ Resolves(d.marks, "enrolmentId", d.enrolments)
    /\ Resolves(d.marks, "assessmentId", d.assessments)
    /\ Resolves(d.courseReports, "courseId", d.courses)
    /\ Resolves(d.courseReports, "semesterId", d.semesters)

(* C17: from the empty store, after any sequence of store operations every  *)
(* foreign key held by the store names a record of the store: no add or     *)
(* upsert stores a dangling reference and nothing is ever removed.          *)
C17_ForeignKeysResolve == ForeignKeysResolve(data)

(* A mark and a course report are stored, at the end of the longest chains  *)
(* of references, after requests naming unknown ids were turned down.       *)
C17_Witness ==
    /\ Len(data.marks) = 1
    /\ Len(data.courseReports) = 1
    /\ response.body = [error |-> "Referenced assessment does not exist."]
(* C18: every stored assessment has a positive maxMarks; addAssessment      *)
(* never stores 0 or a negative number.                                     *)
C18_MaxMarksPositive ==
    \A i \in DOMAIN data.assessments : data.assessments[i].maxMarks > 0

WeightInRange(mapping) == mapping.weight >= 0 /\ mapping.weight <= 100

(* C19: the weight of every stored assessment->CO mapping and of every      *)
(* stored CO->PO mapping lies between 0 and 100 inclusive.                  *)
C19_WeightsWithinRange ==
    /\ \A i \in DOMAIN data.assessmentCoMappings : WeightInRange(data.assessmentCoMappings[i])
    /\ \A i \in DOMAIN data.coPoMappings : WeightInRange(data.coPoMappings[i])

(* C20: the file is written by one writer at a time and in the order of the *)
(* mutations, so once no write is in flight data.json is the serialisation *)
(* of the store as it is in memory.                                         *)
C20_FileIsFinalStore == pending = <<>> => file = stringify(data)
(***************************************************************************)
(* Reasons, error answers and ranges                                        *)
(***************************************************************************)
MappedAssessmentIds(d, c) ==
    { d.assessmentCoMappings[i].assessmentId :
        i \in { j \in DOMAIN d.assessmentCoMappings :
                    d.assessmentCoMappings[j].courseOutcomeId = c } }

(* No enrolment of the group has a mark on an assessment mapped to c. *)
NoMarksOnMapped(d, group, c) ==
    \A i \in DOMAIN group, k \in Range(d.marks) :
        k.enrolmentId = group[i].id => k.assessmentId \notin MappedAssessmentIds(d, c)

CoStudentReasons(d, rows) ==
    \A r \in DOMAIN rows :
        rows[r].status = "No assessment mapping"
            => NoMappings(d, CourseOutcomeOfRow(d, rows[r]).id)

CoSemesterReasons(d, group, rows) ==
    \A r \in DOMAIN rows :
        rows[r].status = "No marks uploaded"
            => NoMarksOnMapped(d, group, CourseOutcomeOfRow(d, rows[r]).id)

(* C21: a NoData row carries its reason: the per-student CO report labels a *)
(* row 'No assessment mapping' only when the outcome has no assessment->CO  *)
(* mapping, and the per-semester CO report labels a row 'No marks uploaded' *)
(* only when the group's enrolments have no mark on the mapped assessments. *)
C21_NoDataCarriesReason ==
    /\ \A s \in StudentIds, c \in CourseInputs :
          CoStudentReasons(data, renderCoAchievementForStudent(data, s, c).rows)
    /\ \A c \in CourseInputs, sem \in SemesterInputs :
          CoSemesterReasons(data, CourseGroup(data, c, sem),
                            renderCoAchievementForSemester(data, c, sem).rows)
ErrorAnswer(error) == [status |-> error.status, body |-> [error |-> error.message]]

(* The request is answered with the error's status and message; no          *)
(* collection changes and no write is started or finished.                  *)
RejectedCleanly(error) ==
    /\ error.status \in {400, 409}
    /\ response' = ErrorAnswer(error)
    /\ UNCHANGED <<data, pending, file>>

RejectsCleanly(error, Post) ==
    error # NoError => ENABLED (Post /\ RejectedCleanly(error))
                       /\ ~ENABLED (Post /\ ~RejectedCleanly(error))

C23_FailedSaveLeavesNoRecord ==
    [][\A i \in 1..MaxInFlight :
          listening /\ writeFileFails(i)
              => ~Exists(data'[pending[i].collection], pending[i].id)]_vars

(* The text read from data.json is a JSON text. *)
Parses(raw) == "json" \in DOMAIN raw

(* The members of the value a JSON text denotes; null has none. *)
MembersOf(parsed) ==
    IF "members" \in DOMAIN parsed THEN parsed.members ELSE [key \in {} |-> NoArray]

(* The store the file stands for: each seed key takes the array the file    *)
(* gives it, every other seed key is empty, other keys are dropped.         *)
SeedCollectionsOf(parsed) ==
    [key \in DOMAIN initialData |->
        IF key \in DOMAIN MembersOf(parsed) /\ "array" \in DOMAIN MembersOf(parsed)[key]
        THEN MembersOf(parsed)[key].array
        ELSE <<>>]

(* C30: DataStore.init leaves the twelve seed collections, each an array.   *)
(* A missing file gives the empty store and is created; a file that parses  *)
(* gives each seed key its array, or the empty array, and drops other keys; *)
(* a file that cannot be read or is no JSON makes init fail, and the server *)
(* does not serve.                                                          *)
C30_InitLoadsSeedCollections ==
    [][init =>
          /\ file = Missing =>
                data' = initialData /\ file' = stringify(initialData) /\ listening'
          /\ file # Missing /\ file # Unreadable /\ Parses(file) =>
                data' = SeedCollectionsOf(file) /\ listening'
          /\ file = Unreadable \/ (file # Missing /\ ~Parses(file)) =>
                ~listening']_vars

(* The natural key of each record, codes taken without regard to case. *)
ProgramKey(program) == toLowerCase(program.code)

StudentKey(student) == toLowerCase(student.studentId)

EnrolmentKey(enrolment) ==
    <<enrolment.studentId, enrolment.courseId, enrolment.semesterId, enrolment.year>>

ProgramOutcomeKey(outcome) == <<outcome.programId, toLowerCase(outcome.code)>>

CourseOutcomeKey(outcome) == <<outcome.courseId, toLowerCase(outcome.code)>>

NaturalKeysUnique(d) ==
    /\ \A i, j \in DOMAIN d.programs :
          ProgramKey(d.programs[i]) = ProgramKey(d.programs[j]) => i = j
    /\ \A i, j \in DOMAIN d.students :
          StudentKey(d.students[i]) = StudentKey(d.students[j]) => i = j
    /\ \A i, j \in DOMAIN d.enrolments :
          EnrolmentKey(d.enrolments[i]) = EnrolmentKey(d.enrolments[j]) => i = j
    /\ \A i, j \in DOMAIN d.programOutcomes :
          ProgramOutcomeKey(d.programOutcomes[i]) = ProgramOutcomeKey(d.programOutcomes[j])
              => i = j
    /\ \A i, j \in DOMAIN d.courseOutcomes :
          CourseOutcomeKey(d.courseOutcomes[i]) = CourseOutcomeKey(d.courseOutcomes[j])
              => i = j

(* The request is answered 409 and the store keeps its records. *)
RejectedAsTaken == response'.status = 409 /\ UNCHANGED <<data, pending, file>>

(* A request whose key is taken has the one outcome RejectedAsTaken. *)
TakenIsRejected(taken, Post) ==
    taken => ENABLED (Post /\ RejectedAsTaken) /\ ~ENABLED (Post /\ ~RejectedAsTaken)

CanAccept == ops < MaxRequests /\ Len(pending) < MaxInFlight

(* The same student and course are enrolled in another year only. *)
EnrolledInOtherYearOnly(d, year) ==
    /\ \E i \in DOMAIN d.enrolments : d.enrolments[i].year # year
    /\ \A i \in DOMAIN d.enrolments : d.enrolments[i].year # year

EnrolmentAppended(year) ==
    /\ Len(data'.enrolments) = Len(data.enrolments) + 1
    /\ SubSeq(data'.enrolments, 1, Len(data.enrolments)) = data.enrolments
    /\ EnrolmentKey(data'.enrolments[Len(data'.enrolments)]) = <<1, 1, 1, year>>
    /\ Accepted.status = 201

(* C29: the natural keys stay unique under every interleaving of create     *)
(* requests from the empty store: program code and student id without       *)
(* regard to case, the enrolment's student, course, semester and year, the  *)
(* outcome code within its program or course without regard to case.  A     *)
(* request that repeats a key is answered 409; the same student and course  *)
(* in another semester or year are accepted.                                *)
C29_NaturalKeysStayUnique ==
    /\ NaturalKeysUnique(data)
    /\ \A code \in ProgramCodeCases :
          TakenIsRejected(\E i \in DOMAIN data.programs :
                              ProgramKey(data.programs[i]) = toLowerCase(code),
                          PostPrograms(code))
    /\ \A studentId \in StudentIdCases :
          TakenIsRejected(\E i \in DOMAIN data.students :
                              StudentKey(data.students[i]) = toLowerCase(studentId),
                          PostStudents(studentId, 1))
    /\ \A year \in EnrolmentYears :
          TakenIsRejected(\E i \in DOMAIN data.enrolments :
                              EnrolmentKey(data.enrolments[i]) = <<1, 1, 1, year>>,
                          PostEnrolments(1, 1, 1, year))
    /\ \A code \in OutcomeCodeCases :
          TakenIsRejected(\E i \in DOMAIN data.programOutcomes :
                              ProgramOutcomeKey(data.programOutcomes[i])
                                  = <<1, toLowerCase(code)>>,
                          PostProgramOutcomes(1, code))
    /\ \A code \in CourseOutcomeCodeCases :
          TakenIsRejected(\E i \in DOMAIN data.courseOutcomes :
                              CourseOutcomeKey(data.courseOutcomes[i])
                                  = <<1, toLowerCase(code)>>,
                          PostCourseOutcomes(1, code))
    /\ \A year \in EnrolmentYears :
          EnrolledInOtherYearOnly(data, year) /\ CanAccept
              => /\ ENABLED (PostEnrolments(1, 1, 1, year) /\ EnrolmentAppended(year))
                 /\ ~ENABLED (PostEnrolments(1, 1, 1, year) /\ ~EnrolmentAppended(year))

C29_Witness ==
    /\ Len(data.enrolments) = 2
    /\ data.enrolments[1].year # data.enrolments[2].year
    /\ Len(data.programs) = 1
    /\ Len(data.students) = 1
    /\ Len(data.programOutcomes) = 1
    /\ Len(data.courseOutcomes) = 1
    /\ pending = <<>>
    /\ response = ErrorAnswer(ValidationError("A student with this ID already exists.", 409))

(* The mapping's assessment and course outcome belong to one course. *)
WithinOneCourse(d, mapping) ==
    EntryOf(d, "assessments", mapping.assessmentId).courseId
        = EntryOf(d, "courseOutcomes", mapping.courseOutcomeId).courseId

(* C28: every assessment-to-CO mapping the store accepts links an           *)
(* assessment and a course outcome of the same course.                      *)
C28_MappingsWithinOneCourse ==
    [][Len(data'.assessmentCoMappings) = Len(data.assessmentCoMappings) + 1
          => WithinOneCourse(data', data'.assessmentCoMappings[Len(data'.assessmentCoMappings)])]_vars

(* Every assessment has positive maximum marks and every recorded mark lies *)
(* between 0 and the maximum of its assessment.                             *)
MarksWithinMax(d) ==
    /\ \A i \in DOMAIN d.assessments : d.assessments[i].maxMarks > 0
    /\ \A i \in DOMAIN d.marks :
          /\ d.marks[i].marks >= 0
          /\ \A j \in DOMAIN d.assessments :
                d.assessments[j].id = d.marks[i].assessmentId
                    => d.marks[i].marks <= d.assessments[j].maxMarks

WithinPercent(value) == RGeq(value, RInt(0)) /\ RGeq(RInt(100), value)

(* The attainments of every enrolment on every course outcome that are data. *)
AllCoAttainments(d) ==
    { calculateCourseOutcomeAchievement(d, d.enrolments[i], d.courseOutcomes[c].id) :
        i \in DOMAIN d.enrolments, c \in DOMAIN d.courseOutcomes } \ {Null}

(* C26: when every assessment has positive maximum marks and every mark is  *)
(* between 0 and its maximum, every CO attainment that is data lies between *)
(* 0 and 100, whatever the enrolment, the outcome and the weights.          *)
C26_CoAttainmentWithinRange ==
    MarksWithinMax(data) => \A value \in AllCoAttainments(data) : WithinPercent(value[1])

(* Marks were uploaded, one outcome has two weighted assessments, and the   *)
(* attainments include one strictly inside the range and the full 100.      *)
C26_Witness ==
    /\ MarksWithinMax(data)
    /\ ops = 1
    /\ data.marks # <<>>
    /\ \E value \in AllCoAttainments(data) :
          ~RGeq(RInt(0), value[1]) /\ ~RGeq(value[1], RInt(100))
    /\ \E enrolment \in {data.enrolments[i] : i \in DOMAIN data.enrolments},
          c \in DOMAIN data.courseOutcomes :
          /\ ~IsNull(calculateCourseOutcomeAchievement(data, enrolment, data.courseOutcomes[c].id))
          /\ \E m, n \in DOMAIN data.assessmentCoMappings :
                /\ m # n
                /\ data.assessmentCoMappings[m].courseOutcomeId = data.courseOutcomes[c].id
                /\ data.assessmentCoMappings[n].courseOutcomeId = data.courseOutcomes[c].id
                /\ CoWeight(data.assessmentCoMappings[m]) # CoWeight(data.assessmentCoMappings[n])
                /\ WithinOneCourse(data, data.assessmentCoMappings[m])
                /\ WithinOneCourse(data, data.assessmentCoMappings[n])
                /\ EntryOf(data, "assessments", data.assessmentCoMappings[m].assessmentId).courseId
                      = enrolment.courseId

(* Some reachable store breaks the premise and shows more than 100. *)
C26_PremiseMatters ==
    \E value \in AllCoAttainments(data) : ~RGeq(RInt(100), value[1])

(* The value is no smaller than some value of the set and no larger than    *)
(* some value of it: it lies between the smallest and the largest.          *)
BetweenExtremes(value, values) ==
    /\ \E lo \in values : RGeq(value, lo)
    /\ \E hi \in values : RGeq(hi, value)

(* The per-CO means that contribute to the student's attainment of p. *)
ContributingMeans(d, s, p, sem) ==
    { MeanCo(d, s, sem, j) : j \in Contributing(d, s, p, sem) }

AverageBetweenExtremes(attainments) ==
    attainments # <<>> => BetweenExtremes(Average(attainments), Range(attainments))

(* C27: a student's PO attainment that is data lies between the smallest    *)
(* and the largest contributing per-CO mean; a per-semester PO or CO        *)
(* average lies between the smallest and the largest value it averages.     *)
C27_MeansBetweenExtremes ==
    /\ \A s \in StudentIds, p \in ProgramOutcomeIds, sem \in SemesterFilters :
          ~IsNull(calculateProgramOutcomeAchievementForStudent(data, s, p, sem))
              => BetweenExtremes(
                     calculateProgramOutcomeAchievementForStudent(data, s, p, sem)[1],
                     ContributingMeans(data, s, p, sem))
    /\ \A programId \in {1, 2}, p \in ProgramOutcomeIds, sem \in SemesterInputs :
          AverageBetweenExtremes(
              PoAttainments(data, ProgramStudents(data, programId), p, sem))
    /\ \A c \in CourseInputs, sem \in SemesterInputs, co \in DOMAIN data.courseOutcomes :
          AverageBetweenExtremes(
              CoAttainments(data, CourseGroup(data, c, sem), data.courseOutcomes[co].id))

(* A student's PO attainment lies strictly between two different            *)
(* contributing means, and a semester average is taken over two values.     *)
C27_Witness ==
    /\ \E s \in StudentIds, p \in ProgramOutcomeIds :
          /\ ~IsNull(calculateProgramOutcomeAchievementForStudent(data, s, p, 0))
          /\ \E lo, hi \in ContributingMeans(data, s, p, 0) :
                /\ ~RGeq(lo, calculateProgramOutcomeAchievementForStudent(data, s, p, 0)[1])
                /\ ~RGeq(calculateProgramOutcomeAchievementForStudent(data, s, p, 0)[1], hi)
    /\ \E c \in CourseInputs, sem \in SemesterInputs, co \in DOMAIN data.courseOutcomes :
          LET attainments ==
                  CoAttainments(data, CourseGroup(data, c, sem), data.courseOutcomes[co].id)
          IN  Len(attainments) = 2 /\ attainments[1] # attainments[2]
    /\ \E programId \in {1, 2}, p \in ProgramOutcomeIds, sem \in SemesterInputs :
          LET attainments == PoAttainments(data, ProgramStudents(data, programId), p, sem)
          IN  Len(attainments) = 2 /\ attainments[1] # attainments[2]

(* The copy of the data holds a mark of the upload's enrolment and          *)
(* assessment.                                                              *)
MarkIn(d, upload) ==
    \E i \in DOMAIN d.marks :
        /\ d.marks[i].enrolmentId = upload.enrolmentId
        /\ d.marks[i].assessmentId = upload.assessmentId

(* After the handler of upload n has returned: the page's copy was fetched  *)
(* once the mark was in the store, every report whose filter was submitted  *)
(* shows what that copy gives for the filter, and the others show nothing.  *)
RegeneratedFor(n) ==
    /\ client'.asOf >= client.uploads[n].applied
    /\ MarkIn(client'.data, client.uploads[n])
    /\ client'.last = client.last
    /\ \A view \in Views :
          IF IsNull(client.last[view])
          THEN IsNull(innerHTML(client', view))
          ELSE innerHTML(client', view)
                  = Some(Content(client'.data, view, client.last[view][1]))

ReadsSixtyOrMore(text) == ~text.neg /\ text.cents >= 6000

RowsAgree(content) ==
    \A i \in DOMAIN content.rows :
        ~IsNull(content.rows[i].achievement) =>
            /\ ReadsSixtyOrMore(content.rows[i].achievement[1])
                  => content.rows[i].status = "Achieved"
            /\ content.rows[i].status = "Needs Attention"
                  => ~ReadsSixtyOrMore(content.rows[i].achievement[1])

(* C25: in every attainment report on the page the percentage text and the  *)
(* status agree: a row reading 60.00% or more is Achieved, a Needs          *)
(* Attention row reads less than 60.00%.                                    *)
C25_DisplayedStatusAgrees ==
    \A view \in Views \ {"po-co"} :
        ~IsNull(innerHTML(client, view)) => RowsAgree(innerHTML(client, view)[1])
====
